---- MODULE Spec2Model ----
(***************************************************************************)
(* disredis: a StrictRedis-compatible client that shards single-key        *)
(* commands over the Redis masters a Sentinel tier knows about             *)
(* (src/disredis/disredis_client/client.py).                               *)
(*                                                                         *)
(* The module models the client's shared state (nodes, sentinel,           *)
(* sentinel_addresses), the Sentinel tier and the Redis masters as the     *)
(* environment, and the control flow of __init__/_get_nodes, _connect,     *)
(* _execute_sentinel_command, get_master, get_node_for_key and the         *)
(* executeOnNode wrapper, statement by statement, as one step relation     *)
(* (Step).  Under Spec a public call runs to completion as one action      *)
(* (a single caller: the environment does not change during a call).       *)
(* SpecData follows the values the servers store for the keys of DataKeys  *)
(* under set and get; SpecApi adds pubsub and the methods that are not     *)
(* single-key commands.  Under SpecConc and SpecRace two threads run their *)
(* calls one statement at a time, interleaved.                             *)
(* Under SpecPort the Sentinel connection returns the port as a string or  *)
(* as an integer.                                                          *)
(***************************************************************************)
EXTENDS Integers, Sequences, FiniteSets, TLC

VARIABLES
    nodes,               \* DisredisClient.nodes: the list of Node objects
    sentinel,            \* DisredisClient.sentinel: the Sentinel connection (0: None)
    sentinel_addresses,  \* DisredisClient.sentinel_addresses: the rotation
    ctor,                \* "pending" | "done" | "failed": DisredisClient.__init__
    masters,             \* Sentinel tier: master name -> address it reports
    sentinelUp,          \* Sentinel tier: which Sentinel members answer
    serverDown,          \* Redis servers (host, port) that refuse connections
    data,                \* Redis servers: (host, port) -> key of DataKeys -> value
    portRep,             \* how get-master-addr-by-name's port reaches the client
    last,                \* the most recent public call: its arguments and outcome
    frames,              \* SpecConc: thread -> the frame of the thread's call
    origin               \* SpecConc: the client's state when the first call began

vars == <<nodes, sentinel, sentinel_addresses, ctor, masters, sentinelUp,
          serverDown, data, portRep, last, frames, origin>>

-----------------------------------------------------------------------------
(* The Sentinel tier of the tests monitors two masters, node1 and node2    *)
(* (MockStrictRedis.masters, test_client.py lines 22-23): 1..NumShards.    *)
NumShards == 2

(* Bounds of the model.                                                    *)

\* Keys are the strings of at most MaxKeyLen characters of Chars.
MaxKeyLen == 4
\* The Sentinel addresses given to the constructor: 1..NumSentinels.
NumSentinels == 2

-----------------------------------------------------------------------------
(* Keys and the key router.                                                *)

\* The characters keys are made of; a key is a sequence of them.
Chars == <<"{", "}", "1", "2", "3">>

CharSet == {Chars[i] : i \in 1..Len(Chars)}

Keys == UNION {[1..n -> CharSet] : n \in 0..MaxKeyLen}

CharIdx(c) == CHOOSE i \in 1..Len(Chars) : Chars[i] = c

\* The position of string s in SHA1_DIGESTS, less one: the strings in order of
\* length, then in the order of Chars (bijective base-Len(Chars) numeration).
RECURSIVE KeyNum(_)
KeyNum(s) ==
    IF s = <<>> THEN 0
    ELSE KeyNum(SubSeq(s, 1, Len(s) - 1)) * Len(Chars) + CharIdx(s[Len(s)])

SHA1_DIGESTS ==
  <<
    <<55865, 41966, 24171, 19213, 12885, 49135, 38240, 6288, 45016, 1801>>,
    <<24762, 19245, 43598, 54480, 28926, 49254, 34786, 18912, 59129, 60997>>,
    <<49847, 57186, 509, 54070, 9113, 2335, 2601, 21773, 62288, 23402>>,
    <<13674, 6443, 30995, 45132, 21591, 19736, 49805, 18150, 14676, 10411>>,
    <<55883, 37431, 47820, 52721, 39943, 24778, 47022, 50344, 13712, 4272>>,
    <<30686, 26842, 60632, 9146, 48053, 36571, 7310, 5335, 4206, 33723>>,
    <<2356, 15493, 21589, 21999, 49950, 28272, 47082, 32202, 57221, 18736>>,
    <<48929, 43496, 64453, 41860, 28592, 23375, 41093, 40457, 6066, 8239>>,
    <<3562, 54542, 39152, 31475, 16075, 62562, 24242, 27840, 12855, 15678>>,
    <<25095, 1563, 7126, 19220, 53661, 60673, 65071, 18686, 43265, 50198>>,
    <<4030, 61751, 57322, 17368, 62636, 20909, 47853, 14286, 28754, 34781>>,
    <<20099, 13712, 38591, 45396, 59875, 7637, 14087, 54179, 55587, 38459>>,
    <<18478, 37067, 6874, 63807, 22965, 33708, 1683, 25877, 16682, 17177>>,
    <<56662, 58486, 2320, 3693, 3258, 60109, 10676, 16446, 7366, 16723>>,
    <<63012, 42423, 679, 61197, 35673, 36566, 55372, 42675, 3256, 40878>>,
    <<33877, 27314, 61155, 50873, 29700, 63926, 63485, 6879, 61682, 23663>>,
    <<28526, 51769, 28063, 37361, 29361, 24373, 7875, 3460, 19931, 14152>>,
    <<62992, 48717, 63096, 12507, 52309, 49777, 38658, 16025, 1409, 34294>>,
    <<6074, 1937, 18845, 47368, 17211, 33011, 31839, 48265, 47216, 2123>>,
    <<31570, 155, 25853, 2602, 18918, 55465, 14709, 12407, 31019, 1364>>,
    <<48432, 31294, 49961, 57610, 11519, 36792, 29824, 33341, 41236, 63732>>,
    <<31307, 7441, 32360, 27337, 23378, 380, 14633, 48519, 9846, 58126>>,
    <<55404, 15857, 17236, 4547, 39350, 57986, 7219, 16750, 23980, 5180>>,
    <<18219, 1977, 64754, 49733, 7815, 33257, 17599, 24439, 52612, 22472>>,
    <<4806, 64518, 51610, 17955, 30190, 46068, 15869, 33579, 2250, 40471>>,
    <<54325, 42701, 55174, 12301, 65312, 20199, 49903, 37933, 16016, 13538>>,
    <<41435, 19300, 45455, 50529, 10440, 1060, 16239, 48286, 53305, 52635>>,
    <<19522, 64433, 3872, 64015, 53718, 43204, 14181, 10666, 7034, 12707>>,
    <<25382, 26452, 32380, 54240, 18021, 18310, 15890, 1960, 49344, 50505>>,
    <<52046, 21000, 46285, 34598, 35616, 36425, 17710, 55016, 39528, 57528>>,
    <<46697, 11941, 57234, 3245, 26908, 8241, 39535, 65495, 42151, 26296>>,
    <<55301, 7915, 34525, 13652, 27623, 40689, 56766, 63777, 21214, 2574>>,
    <<28184, 53439, 55026, 29288, 57688, 44243, 60188, 1224, 23868, 48738>>,
    <<24465, 16602, 61770, 43540, 22446, 34241, 18872, 3865, 50725, 12929>>,
    <<53947, 18020, 50935, 6606, 59619, 4304, 37327, 24870, 7520, 4812>>,
    <<31622, 58260, 23096, 26857, 61855, 21385, 19807, 42535, 36256, 48941>>,
    <<13759, 9456, 4420, 20541, 19369, 63605, 45777, 55458, 22777, 50219>>,
    <<35397, 28420, 28433, 52054, 20554, 491, 30263, 12067, 38792, 53272>>,
    <<18774, 53389, 39018, 372, 19269, 29619, 49888, 1927, 56629, 11201>>,
    <<22329, 39628, 57641, 39937, 4858, 48930, 42374, 45338, 51444, 32836>>,
    <<62457, 57731, 46982, 25672, 13136, 13500, 53130, 12021, 18045, 56032>>,
    <<62772, 64670, 1145, 14475, 20810, 7574, 15909, 38260, 29357, 33502>>,
    <<18727, 52740, 20461, 46292, 3879, 22141, 30673, 21128, 19990, 20665>>,
    <<13161, 63399, 26704, 53570, 49042, 29486, 62025, 1160, 29524, 58906>>,
    <<38425, 24797, 8786, 15894, 12071, 5613, 24506, 25141, 28195, 64274>>,
    <<3436, 27879, 10991, 37487, 22282, 51679, 36779, 62111, 57845, 46287>>,
    <<49791, 54649, 31293, 59627, 16197, 65227, 19145, 60132, 51806, 288>>,
    <<43981, 43300, 49402, 31122, 41989, 15802, 15867, 8814, 13937, 53340>>,
    <<42081, 31553, 30177, 34282, 47068, 49331, 4619, 54426, 23741, 3672>>,
    <<34691, 1546, 59880, 17248, 27510, 28812, 2018, 46215, 24297, 12943>>,
    <<47236, 1329, 46321, 42858, 7248, 39044, 5618, 40559, 33678, 15696>>,
    <<3595, 38374, 59149, 27087, 20287, 35678, 21241, 58952, 46509, 33508>>,
    <<55927, 3219, 53975, 22992, 42502, 37886, 61482, 6485, 26413, 19085>>,
    <<49124, 21474, 513, 30546, 62735, 7615, 210, 35474, 11214, 31321>>,
    <<13888, 41208, 20483, 23846, 18409, 16622, 30472, 9290, 54195, 14423>>,
    <<3515, 38540, 50426, 13207, 29973, 16921, 14897, 439, 30551, 58244>>,
    <<51118, 52079, 34705, 58321, 53849, 13017, 17917, 33768, 65507, 61794>>,
    <<41198, 46227, 27217, 60528, 18630, 29551, 57799, 59089, 46069, 8589>>,
    <<19511, 57413, 52692, 54225, 11660, 62670, 6428, 10494, 49154, 37528>>,
    <<17257, 44488, 28027, 24409, 46097, 13704, 6722, 57785, 6986, 36726>>,
    <<56445, 4679, 23384, 30460, 29652, 64861, 24325, 2803, 38841, 51941>>,
    <<23229, 28352, 8180, 23585, 9331, 7109, 12237, 49207, 47595, 51764>>,
    <<41893, 15640, 22703, 21609, 21220, 41033, 42381, 24933, 11710, 39921>>,
    <<61219, 65486, 50929, 25869, 34379, 58865, 47552, 4837, 62531, 39901>>,
    <<22548, 16896, 16574, 62902, 56945, 22325, 35196, 2729, 43737, 25968>>,
    <<64509, 25029, 2550, 36700, 19235, 56411, 56899, 2910, 25397, 48370>>,
    <<59560, 32564, 42225, 38340, 62008, 36069, 23715, 23007, 10369, 1804>>,
    <<61870, 62736, 47404, 2998, 20862, 14858, 19430, 57073, 20658, 33590>>,
    <<58287, 20144, 64077, 9852, 46621, 58329, 44402, 55310, 49063, 63314>>,
    <<18533, 5831, 27040, 63896, 15032, 12450, 59282, 353, 23774, 3262>>,
    <<19782, 56231, 57623, 62247, 29749, 47826, 38197, 33100, 3698, 13505>>,
    <<33461, 32436, 11569, 60455, 46155, 29379, 56668, 29772, 34794, 47262>>,
    <<35127, 40675, 58196, 57468, 25213, 33550, 22369, 21347, 30035, 46275>>,
    <<21425, 63917, 62399, 8167, 54409, 32295, 47765, 42498, 60223, 4270>>,
    <<59890, 44017, 55488, 818, 30715, 32281, 41863, 2648, 53745, 9940>>,
    <<3661, 1823, 13042, 10874, 25746, 53073, 41855, 38749, 58836, 36200>>,
    <<39278, 40406, 14439, 20977, 41648, 52540, 43605, 13403, 47722, 39208>>,
    <<17661, 9074, 31055, 38642, 18581, 29104, 8117, 41510, 47845, 65067>>,
    <<22877, 42105, 60209, 9678, 21873, 38928, 50247, 54764, 21344, 12013>>,
    <<63720, 35362, 47902, 31750, 16900, 48819, 10949, 42590, 31764, 18644>>,
    <<7585, 64872, 3121, 29570, 41385, 26506, 34072, 57013, 18065, 14445>>,
    <<25997, 14948, 43829, 63468, 41391, 44177, 56430, 33408, 16109, 24672>>,
    <<37407, 18011, 16164, 35085, 22982, 43779, 7275, 8875, 22752, 33959>>,
    <<30469, 37839, 38528, 22477, 59223, 59948, 45779, 14714, 52600, 33562>>,
    <<14013, 19015, 24292, 1612, 39157, 61392, 5314, 13270, 55458, 49081>>,
    <<158, 46598, 4649, 9551, 18107, 61232, 219, 40458, 19185, 42553>>,
    <<41850, 58543, 40044, 40004, 28198, 29284, 36424, 32667, 16609, 49666>>,
    <<9222, 39747, 42440, 25004, 50303, 26845, 15976, 18518, 49135, 27756>>,
    <<11431, 4098, 50902, 6859, 14026, 31723, 20278, 44903, 32917, 54570>>,
    <<46411, 9175, 48150, 35827, 43202, 12918, 62086, 24600, 46986, 12133>>,
    <<48015, 11007, 63222, 54458, 19120, 29875, 18518, 52781, 19388, 59627>>,
    <<23915, 26439, 8600, 315, 53228, 39672, 51058, 31367, 11043, 25748>>,
    <<42939, 359, 51081, 26836, 24514, 10674, 21854, 7002, 56945, 54047>>,
    <<25110, 63655, 24533, 47933, 24354, 46841, 38284, 57054, 16320, 34498>>,
    <<24604, 43421, 22000, 2606, 36467, 26230, 46598, 42195, 7479, 20445>>,
    <<59795, 8539, 64938, 20831, 28320, 4015, 49553, 36692, 37145, 63891>>,
    <<16748, 32258, 12923, 657, 25130, 19919, 18972, 16411, 48827, 18876>>,
    <<51761, 56610, 33469, 58066, 29667, 60807, 26081, 25040, 57557, 23035>>,
    <<35799, 38220, 16577, 58778, 36879, 29162, 14886, 26418, 24729, 5553>>,
    <<1448, 59987, 33465, 64904, 21089, 47934, 60677, 10193, 54192, 29282>>,
    <<16573, 21, 25352, 24515, 20837, 12958, 41471, 23646, 52187, 48879>>,
    <<15552, 18249, 51090, 25670, 25915, 25899, 35070, 12681, 203, 12020>>,
    <<7543, 63692, 56945, 29168, 55896, 16179, 31134, 20838, 23067, 608>>,
    <<59284, 43022, 45321, 5677, 22429, 62749, 46805, 11810, 15280, 59838>>,
    <<37343, 56861, 28160, 24130, 12132, 42391, 30243, 20255, 19584, 46564>>,
    <<54031, 31183, 32751, 18365, 31318, 4465, 40851, 25913, 48832, 53993>>,
    <<29637, 49931, 23096, 30084, 1936, 39565, 64046, 53187, 64361, 20683>>,
    <<49674, 5922, 43063, 42618, 44613, 2862, 15082, 46642, 10023, 61002>>,
    <<49266, 40977, 533, 40107, 55151, 60758, 59466, 8399, 28108, 4559>>,
    <<46235, 17457, 62598, 51056, 32371, 37545, 55982, 49344, 10935, 15257>>,
    <<31126, 64118, 27931, 31536, 33594, 54700, 18665, 58153, 35935, 44605>>,
    <<53715, 33309, 44338, 13395, 63716, 61740, 40259, 65279, 14222, 28208>>,
    <<49056, 49068, 2615, 57419, 17884, 26802, 10257, 2622, 51341, 56746>>,
    <<45450, 50820, 59326, 14259, 62, 33220, 52966, 52968, 44215, 20210>>,
    <<3655, 63181, 29797, 24381, 55211, 47914, 57857, 48218, 12640, 30302>>,
    <<37621, 50679, 36501, 20164, 63346, 21139, 54355, 33347, 22738, 33295>>,
    <<59285, 33597, 9907, 61211, 36888, 36186, 60385, 31042, 4296, 19996>>,
    <<6835, 62503, 30535, 50754, 32194, 31848, 25659, 57807, 33813, 32482>>,
    <<6986, 13903, 30441, 64128, 29521, 24832, 60773, 22796, 20646, 54761>>,
    <<57877, 20458, 23970, 56589, 5938, 65328, 37655, 9154, 38704, 928>>,
    <<6424, 32201, 36302, 21242, 19534, 36357, 45889, 43447, 31313, 64806>>,
    <<36294, 45061, 38264, 37892, 55375, 31664, 25743, 2764, 34096, 17216>>,
    <<1927, 16935, 47056, 36557, 51380, 7416, 13600, 50554, 32496, 18543>>,
    <<39536, 30572, 29747, 21199, 53096, 36434, 20774, 29491, 11870, 16391>>,
    <<7270, 14248, 62177, 63326, 1791, 39300, 35149, 27601, 27194, 13993>>,
    <<44806, 12684, 13256, 58396, 28680, 16098, 15806, 6466, 28447, 40027>>,
    <<19373, 27167, 36497, 31976, 41228, 32208, 59051, 20013, 9597, 23783>>,
    <<42678, 44703, 47993, 52643, 44678, 15606, 21353, 17543, 55143, 33113>>,
    <<60124, 7640, 64551, 38275, 54613, 9984, 44637, 9358, 16289, 9149>>,
    <<20239, 23702, 51844, 22476, 55372, 12537, 7173, 21949, 32353, 23681>>,
    <<21245, 47606, 35920, 15889, 53608, 65106, 857, 390, 19466, 18529>>,
    <<9372, 54176, 37430, 64993, 10741, 11332, 37730, 62558, 14447, 63913>>,
    <<17284, 28197, 12883, 54887, 14309, 55538, 60836, 56113, 62820, 16448>>,
    <<41086, 28001, 43915, 32171, 57279, 51329, 34705, 30501, 57105, 12151>>,
    <<25740, 36349, 58287, 51110, 74, 56467, 52253, 24602, 58376, 47444>>,
    <<37936, 43293, 48171, 9903, 55311, 43947, 28933, 4912, 37512, 20243>>,
    <<49298, 33297, 7290, 57324, 33925, 54382, 36160, 49176, 26650, 59701>>,
    <<64858, 11204, 29241, 42034, 6837, 48368, 25670, 17819, 5247, 31038>>,
    <<56539, 59646, 54845, 35879, 57075, 58580, 9231, 62226, 14607, 44656>>,
    <<16226, 64859, 4191, 55330, 11487, 52518, 12299, 16636, 8832, 41631>>,
    <<31207, 48724, 37091, 60555, 7203, 2473, 55388, 48442, 47597, 41945>>,
    <<53284, 7400, 52276, 6121, 45632, 39345, 47470, 25101, 21625, 55318>>,
    <<53049, 38120, 32582, 15540, 60552, 38324, 23694, 54416, 3911, 32768>>,
    <<52589, 37128, 40062, 8602, 32590, 34531, 49877, 32659, 27958, 30345>>,
    <<43324, 5763, 8980, 32017, 13648, 14649, 14700, 44130, 36289, 38085>>,
    <<38835, 7316, 11754, 45969, 6374, 17443, 61412, 27548, 12774, 27127>>,
    <<10139, 45460, 62922, 33157, 50834, 30001, 42902, 34381, 1585, 33844>>,
    <<30144, 23592, 12370, 22013, 14069, 56028, 2483, 22892, 42194, 54781>>,
    <<24425, 21970, 10147, 8391, 61942, 51162, 10861, 38568, 20904, 4495>>,
    <<33041, 3576, 3236, 2158, 12396, 19538, 43848, 23093, 53110, 6860>>,
    <<52045, 54567, 28898, 22658, 27713, 29891, 25090, 45455, 25758, 9775>>,
    <<7766, 40429, 33642, 56, 36221, 19310, 44927, 57380, 46040, 52793>>,
    <<22587, 30898, 28851, 32932, 18230, 28462, 41581, 13558, 35015, 49460>>,
    <<49792, 38829, 10667, 25023, 60504, 55732, 56915, 48350, 50823, 34606>>,
    <<61226, 64802, 28211, 34019, 19864, 13310, 2509, 4669, 46232, 30028>>,
    <<17281, 17222, 57876, 17578, 62711, 2113, 49022, 54702, 37877, 23197>>,
    <<46393, 37577, 38117, 59417, 9569, 7212, 62965, 62033, 21560, 20443>>,
    <<44581, 4072, 31488, 40948, 63241, 26160, 1682, 63005, 29729, 57343>>,
    <<5162, 44635, 23666, 62644, 45930, 29087, 39687, 34739, 22592, 18544>>,
    <<9025, 49032, 55494, 3063, 14351, 1229, 53306, 57068, 43793, 19624>>,
    <<12163, 23877, 62762, 19638, 5299, 35901, 18646, 17186, 39217, 50877>>,
    <<33014, 7329, 49129, 51660, 6808, 4818, 58869, 33899, 39805, 56846>>,
    <<906, 26812, 27849, 30064, 11745, 39904, 63567, 60144, 30597, 15610>>,
    <<11939, 33721, 28590, 37768, 18445, 57435, 49199, 55361, 46000, 36545>>,
    <<61440, 2989, 45183, 52003, 37949, 64008, 57270, 905, 212, 5036>>,
    <<32233, 5109, 26785, 35045, 3068, 1595, 10227, 62883, 45439, 32777>>,
    <<42009, 40738, 52114, 55945, 25510, 50225, 55031, 5285, 60525, 20438>>,
    <<47112, 52499, 39994, 18654, 61968, 39148, 23183, 50303, 17300, 41747>>,
    <<316, 20859, 32137, 42203, 36413, 22982, 33252, 59551, 42634, 30871>>,
    <<6198, 55541, 17173, 61411, 29698, 681, 29651, 16255, 25231, 7313>>,
    <<20905, 54323, 39575, 63441, 11800, 59383, 51487, 28176, 47257, 11022>>,
    <<27383, 36278, 59066, 30876, 55908, 30335, 39881, 4444, 30711, 1641>>,
    <<37646, 20776, 31265, 15833, 14777, 1659, 11864, 23818, 3500, 6306>>,
    <<33886, 23502, 1094, 56397, 56522, 18221, 43718, 19293, 24914, 450>>,
    <<13246, 46573, 63964, 7139, 13582, 19725, 38436, 5367, 11435, 63093>>,
    <<17193, 2294, 35028, 11654, 40486, 31295, 10320, 38673, 16785, 34949>>,
    <<19056, 16362, 7592, 4809, 374, 21680, 63569, 63443, 62781, 6993>>,
    <<28148, 9303, 48416, 23989, 51265, 43501, 61331, 14172, 46347, 51891>>,
    <<27522, 38985, 54278, 63687, 21120, 51666, 40520, 13806, 37548, 49201>>,
    <<34307, 58822, 8154, 56096, 28723, 59003, 7822, 56312, 5845, 39552>>,
    <<14656, 8923, 20899, 38465, 10876, 21754, 25055, 63086, 45076, 24827>>,
    <<51878, 18032, 28344, 14087, 4272, 16632, 22297, 15849, 8656, 49515>>,
    <<11833, 62973, 32751, 23122, 3090, 43453, 18642, 40763, 29510, 19666>>,
    <<12406, 65380, 50832, 47843, 52321, 59459, 150, 25003, 32592, 60783>>,
    <<49219, 5924, 32320, 33048, 6715, 46397, 62117, 35474, 40178, 9685>>,
    <<44900, 8567, 36765, 23353, 4580, 26305, 17110, 31131, 57666, 30286>>,
    <<13407, 21077, 17511, 32964, 47689, 11110, 47985, 63700, 16276, 46407>>,
    <<53531, 58564, 37654, 19049, 44885, 30766, 5757, 49266, 22278, 7536>>,
    <<12787, 47913, 28366, 51486, 4272, 41288, 36814, 54874, 59553, 56338>>,
    <<33760, 17567, 3000, 14954, 51941, 53584, 65407, 8660, 59484, 31422>>,
    <<22164, 12818, 65348, 28910, 1992, 34798, 61779, 16553, 21686, 62071>>,
    <<52197, 35832, 61724, 49976, 64727, 53107, 17111, 27087, 46845, 19265>>,
    <<58627, 44678, 8668, 42169, 7943, 57939, 1853, 13909, 49592, 40216>>,
    <<49360, 38576, 55618, 49254, 20654, 11236, 36865, 8216, 49596, 33479>>,
    <<35600, 20500, 40946, 53235, 27172, 4408, 8831, 35437, 56454, 8>>,
    <<20327, 56647, 26162, 7834, 43731, 51939, 62210, 3122, 6714, 25084>>,
    <<25792, 60829, 51411, 12541, 64969, 23745, 50783, 26058, 30471, 33022>>,
    <<58414, 14678, 50061, 48314, 51085, 10378, 1771, 1418, 16450, 25349>>,
    <<2291, 64750, 25934, 44569, 6902, 58545, 42363, 13607, 8840, 17150>>,
    <<26188, 30959, 10840, 22152, 16185, 50104, 43621, 41164, 1905, 43661>>,
    <<3056, 41541, 37633, 48435, 16169, 12444, 16363, 2909, 37276, 2594>>,
    <<26923, 41909, 17618, 31748, 28699, 20726, 44859, 35583, 28986, 52383>>,
    <<47949, 55704, 32360, 11121, 22405, 12583, 25002, 56727, 36966, 12216>>,
    <<47342, 55290, 31362, 26515, 12695, 61504, 30691, 10653, 17792, 65006>>,
    <<47329, 64272, 24876, 19396, 1530, 16433, 12783, 55607, 46460, 6003>>,
    <<19799, 51665, 9777, 17097, 57313, 15433, 10727, 2843, 50566, 25991>>,
    <<41991, 18527, 60709, 19202, 64298, 27127, 5411, 65090, 29686, 48398>>,
    <<51354, 20266, 64046, 10904, 21260, 32253, 29805, 30723, 19051, 5>>,
    <<38384, 54107, 20654, 29176, 61657, 2512, 35647, 18137, 2059, 3203>>,
    <<27133, 51134, 7572, 21194, 17650, 22878, 28186, 13774, 43799, 38937>>,
    <<58660, 28921, 51614, 12761, 13976, 50012, 4363, 986, 11134, 18820>>,
    <<55668, 50760, 26863, 7870, 19721, 64330, 26751, 31833, 6418, 32848>>,
    <<20082, 62196, 30942, 991, 58584, 29649, 16234, 32750, 52407, 49301>>,
    <<33176, 54105, 7529, 12657, 31665, 29316, 38412, 38657, 36510, 37687>>,
    <<21538, 30001, 11554, 9359, 43736, 5288, 62271, 16784, 54201, 36401>>,
    <<39088, 37226, 51378, 20678, 51375, 23534, 59654, 37886, 8359, 59405>>,
    <<31845, 41864, 17483, 43230, 35010, 23033, 41024, 15902, 48477, 41975>>,
    <<3318, 18682, 41468, 13301, 35768, 43110, 52808, 47607, 51427, 9181>>,
    <<60948, 60066, 52905, 34988, 41474, 41103, 55354, 3465, 46230, 20577>>,
    <<44086, 26511, 41710, 8580, 30738, 12369, 64100, 10775, 56978, 7708>>,
    <<535, 39552, 4545, 35276, 17142, 63107, 925, 26667, 1703, 32716>>,
    <<42537, 25671, 56086, 32527, 33994, 3889, 1982, 6139, 56272, 6788>>,
    <<46926, 15367, 18728, 35578, 22682, 15800, 49113, 56078, 36734, 28888>>,
    <<36747, 45904, 14394, 13286, 12691, 37329, 2278, 4997, 13102, 7177>>,
    <<57239, 33166, 7229, 32508, 25015, 11702, 34296, 63334, 59100, 58949>>,
    <<7779, 59219, 27292, 12183, 56367, 64544, 49209, 30104, 42991, 2656>>,
    <<44499, 57315, 15699, 4145, 33027, 61230, 57681, 23978, 44076, 63467>>,
    <<46102, 28424, 43101, 13790, 8126, 2514, 18197, 43007, 7800, 62473>>,
    <<15483, 313, 48085, 18017, 21316, 36100, 51285, 20587, 58121, 54490>>,
    <<43991, 43328, 26195, 42025, 54624, 55557, 58191, 45124, 14419, 43794>>,
    <<30687, 41115, 32621, 29133, 16353, 23756, 22838, 44989, 6460, 62404>>,
    <<12063, 18986, 17195, 44125, 32491, 31602, 1102, 33757, 19336, 56532>>,
    <<44359, 41816, 14963, 26252, 37281, 53520, 44761, 44084, 52504, 11957>>,
    <<35287, 8020, 47233, 30652, 20668, 8048, 11970, 55240, 50361, 1965>>,
    <<3470, 44397, 49007, 26494, 42492, 22154, 51976, 50371, 39541, 15130>>,
    <<45340, 45235, 42487, 29915, 50449, 46524, 8978, 46612, 53201, 56223>>,
    <<34629, 23939, 17680, 8029, 26781, 10757, 52852, 60913, 4552, 51258>>,
    <<57419, 14012, 10925, 16560, 8518, 2776, 24572, 8232, 10472, 21143>>,
    <<48472, 4834, 39966, 63567, 13783, 32607, 48474, 6409, 28984, 48644>>,
    <<15142, 23375, 22823, 9444, 17378, 46664, 26920, 1920, 58256, 25998>>,
    <<23608, 8230, 8463, 45461, 8891, 37514, 50506, 55793, 11775, 47382>>,
    <<42070, 20050, 41483, 31839, 42480, 61614, 22795, 3487, 55694, 48129>>,
    <<53579, 8628, 27359, 55726, 15507, 27665, 56677, 20608, 57044, 31290>>,
    <<39041, 16098, 14303, 64273, 32555, 20289, 12166, 34789, 34607, 37491>>,
    <<26009, 59633, 9869, 35856, 10111, 48702, 13279, 29476, 59738, 57493>>,
    <<44344, 8489, 10731, 64311, 48318, 57924, 33227, 37600, 59695, 2896>>,
    <<20895, 14951, 16041, 532, 9633, 65143, 58904, 23256, 38790, 19985>>,
    <<64380, 42426, 8724, 4189, 52123, 8642, 52537, 49085, 35116, 21192>>,
    <<24059, 12565, 61593, 15890, 14702, 35290, 6234, 61633, 14674, 24438>>,
    <<24621, 28234, 10513, 8136, 57697, 42036, 1942, 2352, 786, 19652>>,
    <<4278, 39375, 59085, 18721, 52845, 55016, 14949, 43494, 48029, 1014>>,
    <<26586, 45779, 4037, 58475, 63366, 1204, 51, 40841, 32228, 49868>>,
    <<1874, 50251, 40570, 64003, 40781, 59324, 34784, 43579, 6225, 10610>>,
    <<35414, 21780, 51279, 60275, 41003, 64406, 23705, 6933, 10756, 3758>>,
    <<46937, 15801, 48186, 65205, 6901, 34319, 47091, 809, 36761, 11491>>,
    <<53057, 34018, 23896, 40696, 37775, 62613, 1510, 2732, 26475, 35675>>,
    <<41507, 61399, 46680, 53424, 19880, 10825, 61430, 33184, 20963, 19148>>,
    <<23246, 57769, 11089, 32514, 63963, 21273, 21564, 57916, 16231, 16640>>,
    <<48023, 8631, 60272, 25414, 5814, 63095, 55908, 14152, 59776, 30235>>,
    <<53483, 47646, 13183, 46708, 4682, 44312, 4647, 41456, 63843, 45261>>,
    <<11471, 33469, 14407, 11471, 11387, 29257, 7675, 37466, 28437, 63016>>,
    <<59450, 17361, 32672, 30226, 33824, 5508, 14017, 2612, 44530, 57358>>,
    <<49757, 41435, 18406, 33548, 36217, 27449, 25130, 61405, 33456, 46930>>,
    <<39504, 53041, 12965, 1982, 30947, 48775, 19788, 64282, 34530, 21753>>,
    <<24803, 3571, 1648, 64662, 5558, 59389, 52988, 32041, 12559, 2220>>,
    <<43521, 24208, 56477, 36781, 39106, 36133, 36078, 59365, 64318, 47805>>,
    <<58387, 16103, 50581, 20188, 18974, 33529, 52597, 42255, 39560, 9591>>,
    <<26477, 2637, 61377, 38745, 18315, 62340, 6240, 21830, 41052, 20351>>,
    <<45738, 50460, 1612, 35904, 29069, 50497, 25775, 2166, 54912, 62992>>,
    <<43153, 64870, 56997, 21903, 40385, 45304, 35300, 30727, 56898, 40538>>,
    <<24497, 8702, 10557, 38543, 20996, 4250, 17537, 7028, 49219, 9721>>,
    <<4344, 24852, 18724, 13443, 11153, 41699, 9519, 2536, 27113, 16204>>,
    <<16421, 37865, 38719, 46926, 41686, 38230, 53031, 42299, 44, 12944>>,
    <<57386, 12080, 36135, 9564, 18950, 48016, 47887, 60336, 18010, 1797>>,
    <<28481, 31158, 32107, 57386, 61020, 63265, 61115, 27036, 13856, 3472>>,
    <<41341, 8393, 52383, 33588, 37621, 59618, 6703, 34309, 48384, 46696>>,
    <<59417, 45546, 38883, 60620, 42314, 26350, 43230, 45344, 57162, 38389>>,
    <<3987, 51677, 27093, 29033, 48121, 21501, 36422, 14648, 8921, 21502>>,
    <<19366, 45857, 35283, 58112, 2541, 23714, 41954, 6304, 12361, 62359>>,
    <<41306, 40842, 46863, 53469, 50011, 25791, 1112, 50899, 11220, 22355>>,
    <<30131, 5697, 22514, 4182, 54969, 18879, 24652, 63128, 161, 42334>>,
    <<27553, 55550, 43814, 35204, 12252, 1665, 1551, 38430, 51620, 49640>>,
    <<36374, 47264, 30846, 39419, 14681, 2373, 29743, 54958, 33525, 18991>>,
    <<2592, 38695, 57650, 56142, 40253, 40949, 22840, 11971, 51136, 65128>>,
    <<36517, 22656, 35509, 517, 31463, 376, 55897, 6601, 53099, 32759>>,
    <<5123, 39522, 4329, 34970, 8558, 43541, 22090, 3851, 56172, 38745>>,
    <<34983, 30517, 6275, 35357, 24297, 42678, 39158, 47453, 34281, 9427>>,
    <<16828, 38864, 18328, 41907, 8530, 39973, 52283, 57917, 65034, 30637>>,
    <<43401, 25796, 7003, 54991, 13584, 32602, 20649, 53753, 15170, 39334>>,
    <<15533, 57850, 55584, 52788, 64348, 52355, 44879, 25564, 23526, 59725>>,
    <<13115, 2508, 45672, 38099, 1095, 52374, 42642, 48019, 14943, 31834>>,
    <<31066, 11616, 9707, 31308, 26617, 35005, 47627, 12496, 24689, 14399>>,
    <<53060, 21530, 44491, 57881, 56096, 61217, 5837, 10944, 7602, 18382>>,
    <<45373, 16668, 58183, 42218, 10280, 60861, 19534, 53014, 64363, 37249>>,
    <<13432, 13704, 58136, 42254, 28191, 16335, 41012, 46783, 20260, 22543>>,
    <<12950, 19912, 19437, 56604, 17837, 32100, 32646, 48591, 22540, 37334>>,
    <<40724, 32449, 39116, 24571, 54670, 37248, 59368, 51752, 5135, 48129>>,
    <<19147, 16189, 36336, 46362, 59036, 37727, 54224, 51903, 24611, 31148>>,
    <<61464, 26597, 2548, 38757, 16212, 51173, 3587, 17794, 58112, 34914>>,
    <<41724, 11763, 11335, 60254, 29618, 36140, 1461, 18398, 27617, 46495>>,
    <<30988, 25994, 57958, 31238, 54319, 17069, 2220, 36136, 17378, 29810>>,
    <<40705, 14063, 23758, 45346, 58480, 14261, 3011, 27653, 3142, 47791>>,
    <<17122, 64672, 39173, 24931, 47376, 37342, 20366, 36014, 21505, 106>>,
    <<25838, 54066, 62921, 44629, 49969, 61480, 40452, 18297, 43252, 49961>>,
    <<26611, 52025, 22572, 49735, 4818, 16725, 36684, 61737, 11359, 44069>>,
    <<15458, 8813, 30333, 50408, 27429, 39308, 39772, 64874, 7072, 6812>>,
    <<41640, 8214, 39540, 64371, 38801, 17427, 45484, 20913, 62030, 54365>>,
    <<23212, 204, 60835, 36848, 28247, 52873, 14997, 57743, 6557, 37709>>,
    <<30601, 25644, 5619, 51310, 46650, 47823, 33978, 1447, 49287, 50909>>,
    <<7174, 43093, 18129, 60788, 7124, 40398, 29013, 3858, 38348, 17250>>,
    <<8377, 41208, 34395, 63600, 56935, 969, 46573, 63229, 1011, 43159>>,
    <<24740, 5015, 41598, 48207, 58194, 2040, 4553, 54563, 11940, 42596>>,
    <<14322, 22714, 40198, 40158, 26451, 10957, 40482, 8580, 15265, 23794>>,
    <<21579, 39403, 28295, 15799, 64594, 16641, 58660, 49582, 62615, 35842>>,
    <<35451, 10394, 44728, 7167, 56182, 63358, 2017, 19821, 34045, 52871>>,
    <<51181, 58720, 49503, 35966, 27373, 62902, 44109, 51824, 56481, 36139>>,
    <<21017, 11310, 56442, 38070, 61881, 52487, 13262, 63176, 37872, 15893>>,
    <<940, 40025, 49017, 61505, 62989, 46061, 17333, 36817, 49237, 49433>>,
    <<3754, 17210, 52157, 9853, 146, 15897, 5625, 8271, 23486, 65407>>,
    <<15950, 33280, 16122, 9049, 43461, 11904, 9477, 41775, 41286, 8025>>,
    <<25049, 54885, 40993, 27549, 987, 53309, 45437, 38251, 6886, 59596>>,
    <<34609, 57015, 39504, 51342, 9260, 52979, 9916, 44232, 64175, 15712>>,
    <<29154, 50439, 42412, 40682, 49994, 63904, 23189, 11085, 50944, 18504>>,
    <<11020, 2346, 31513, 40468, 26555, 56014, 19181, 58497, 13411, 53683>>,
    <<9367, 11887, 41785, 8435, 63109, 17953, 36704, 5434, 36283, 63513>>,
    <<49445, 7777, 772, 21169, 43603, 14797, 6976, 57890, 13539, 7034>>,
    <<65287, 17339, 4989, 7010, 27430, 55156, 61303, 11599, 32578, 32031>>,
    <<48792, 65043, 9066, 41215, 2566, 42399, 33851, 16497, 33193, 35667>>,
    <<7005, 26103, 3070, 15827, 62690, 59478, 55811, 25734, 24372, 21136>>,
    <<26789, 15244, 61475, 3100, 5037, 52653, 27210, 60031, 22883, 31410>>,
    <<31412, 13516, 50638, 25305, 40189, 30587, 41967, 2759, 6352, 33148>>,
    <<42357, 65286, 60999, 32220, 46345, 51204, 46311, 5727, 26547, 12098>>,
    <<6470, 17608, 7873, 38890, 46897, 26993, 42568, 6284, 44792, 15280>>,
    <<40295, 36430, 40476, 16816, 11006, 667, 41871, 23774, 11187, 29536>>,
    <<34121, 35766, 9103, 64045, 33153, 37942, 28081, 12748, 56447, 23762>>,
    <<30549, 61027, 8858, 61349, 20099, 30341, 5761, 42470, 36607, 13231>>,
    <<24521, 20654, 48010, 29061, 11027, 49862, 48793, 54749, 655, 41001>>,
    <<12055, 23578, 51237, 6687, 43113, 15595, 64012, 55615, 59053, 64607>>,
    <<22875, 21107, 25787, 4828, 49843, 21192, 62565, 2189, 24484, 30796>>,
    <<11977, 40913, 15954, 16017, 3814, 44255, 212, 40302, 1641, 28739>>,
    <<21165, 63528, 35989, 28576, 30567, 55304, 37801, 55193, 19955, 59979>>,
    <<2587, 28334, 11501, 33149, 59235, 40039, 24715, 37600, 48718, 15815>>,
    <<38858, 31089, 42749, 29211, 49195, 40156, 65462, 8744, 1464, 32583>>,
    <<3687, 19285, 6070, 54661, 51985, 44961, 54476, 30113, 23707, 64325>>,
    <<37226, 45897, 9800, 61224, 64852, 31838, 51602, 27880, 18991, 1617>>,
    <<52677, 38019, 49832, 10143, 50761, 32779, 20813, 41167, 55180, 2831>>,
    <<52468, 36727, 50761, 36403, 8046, 39126, 4322, 366, 1999, 7073>>,
    <<16983, 65433, 8120, 25661, 17172, 55466, 31371, 3796, 22163, 17073>>,
    <<59181, 59892, 12456, 44163, 3357, 26560, 51621, 26495, 8717, 21316>>,
    <<33456, 33309, 43433, 12889, 17435, 20499, 29219, 30306, 54467, 18529>>,
    <<2136, 31287, 34451, 36157, 54619, 11857, 55366, 13007, 54082, 25811>>,
    <<19671, 35906, 42813, 2426, 35381, 24481, 20531, 26279, 37688, 29652>>,
    <<17350, 32762, 6787, 7418, 61463, 39173, 17830, 52497, 25573, 36984>>,
    <<38223, 30536, 39994, 37248, 40531, 31817, 64344, 53723, 40309, 61680>>,
    <<60552, 46651, 18108, 1003, 31776, 33239, 8881, 65343, 40945, 22979>>,
    <<49892, 18627, 16032, 63150, 45292, 18634, 43732, 31156, 5981, 7842>>,
    <<33945, 46801, 32718, 12037, 12800, 31186, 23207, 8174, 25424, 4667>>,
    <<14632, 1385, 64681, 15849, 37538, 18903, 30842, 47397, 6954, 6593>>,
    <<57265, 15394, 56913, 58376, 38177, 59306, 56271, 6325, 64731, 10307>>,
    <<29422, 8564, 25533, 27993, 33558, 51132, 59119, 39693, 50287, 57161>>,
    <<31935, 23660, 35300, 39101, 58648, 57088, 63279, 27487, 17648, 10510>>,
    <<2877, 40285, 39744, 19097, 25865, 29014, 3643, 39829, 34009, 64917>>,
    <<47180, 5400, 31251, 57088, 38681, 31866, 53513, 59558, 52022, 22351>>,
    <<45599, 28394, 44542, 9032, 25559, 44528, 25847, 6211, 1011, 1945>>,
    <<27050, 8140, 21121, 30519, 33617, 1802, 4660, 33177, 19921, 36903>>,
    <<46211, 1139, 16947, 42612, 20351, 53478, 41716, 29259, 42464, 45887>>,
    <<122, 16478, 43544, 21316, 63739, 16831, 28934, 38517, 24733, 43552>>,
    <<56703, 38257, 51696, 22044, 57202, 4242, 16047, 5760, 45954, 52098>>,
    <<54860, 3263, 12624, 11735, 53287, 32316, 57051, 15324, 9469, 16823>>,
    <<41143, 26968, 61370, 35647, 55429, 24974, 4962, 12014, 14117, 12520>>,
    <<27333, 15323, 23378, 54372, 12306, 34931, 28091, 56766, 37780, 42227>>,
    <<38473, 25471, 20583, 36712, 30804, 41865, 11544, 25523, 17628, 45486>>,
    <<65185, 64506, 39517, 35446, 26880, 25312, 47040, 18095, 47590, 60930>>,
    <<48065, 15916, 13240, 12743, 62163, 47311, 6679, 34748, 61640, 32498>>,
    <<51569, 21961, 39732, 29114, 33361, 32305, 1222, 53730, 26774, 9767>>,
    <<43351, 48039, 3037, 16771, 43699, 11567, 23749, 37938, 11150, 8880>>,
    <<6698, 65340, 51117, 11412, 63336, 679, 44421, 9960, 571, 2599>>,
    <<52465, 21131, 45966, 61646, 3772, 23528, 41414, 60314, 40707, 56320>>,
    <<27554, 21709, 48403, 63927, 16448, 10179, 60733, 63993, 34387, 60776>>,
    <<35577, 60024, 25056, 3122, 50077, 41484, 20093, 38394, 46739, 20151>>,
    <<17983, 41603, 38, 47326, 22951, 8016, 25292, 12434, 60461, 56374>>,
    <<41948, 3112, 39237, 35043, 45240, 13947, 47234, 44188, 49403, 25794>>,
    <<15348, 30132, 33179, 50367, 9454, 4867, 47243, 40302, 46583, 5939>>,
    <<29306, 61975, 34673, 21245, 38117, 12444, 47498, 56687, 38599, 63816>>,
    <<64331, 30089, 15623, 27328, 58838, 4472, 40349, 56759, 11465, 24297>>,
    <<20669, 31256, 9394, 62225, 50495, 41290, 59797, 4852, 17022, 44581>>,
    <<25254, 15381, 52209, 59989, 25035, 49944, 11837, 60434, 30217, 28022>>,
    <<3727, 61217, 46479, 47143, 18852, 61469, 58977, 50593, 23057, 15025>>,
    <<1790, 60737, 8078, 60197, 60876, 13385, 34402, 27654, 15366, 40540>>,
    <<27458, 16753, 27117, 49081, 60330, 9489, 8048, 13522, 57957, 62971>>,
    <<51966, 4492, 45093, 6316, 15530, 59700, 58667, 40556, 9028, 28609>>,
    <<57448, 62010, 16740, 60186, 45641, 2552, 5950, 52032, 61830, 11684>>,
    <<62041, 36495, 65177, 50087, 44664, 2875, 64364, 14424, 16492, 11122>>,
    <<19067, 21436, 32871, 37301, 38061, 55410, 23032, 53624, 37857, 61163>>,
    <<39216, 53433, 13761, 8172, 26717, 60380, 40919, 13626, 14718, 39523>>,
    <<23806, 16347, 21707, 63701, 48870, 25934, 63655, 13840, 36038, 51068>>,
    <<24351, 26745, 38624, 46570, 43550, 225, 43774, 48000, 41307, 32538>>,
    <<48720, 45669, 15343, 41611, 20838, 12836, 56472, 47959, 51369, 63034>>,
    <<58430, 50441, 32349, 33754, 22941, 52378, 15546, 57627, 36523, 38106>>,
    <<47110, 60971, 58665, 19566, 42160, 28944, 34178, 54301, 16095, 57314>>,
    <<46252, 48198, 37189, 27941, 45607, 7019, 10706, 54752, 51534, 60821>>,
    <<37330, 14550, 53134, 60414, 18841, 37381, 54160, 61495, 56188, 60073>>,
    <<4894, 10367, 64658, 65102, 51415, 53989, 48221, 30906, 27182, 30825>>,
    <<55287, 55315, 64891, 35241, 7642, 43652, 23969, 4309, 33441, 3844>>,
    <<4444, 29392, 55622, 61017, 33843, 42511, 58140, 14174, 55970, 4729>>,
    <<51282, 39551, 49571, 57393, 24222, 36979, 65158, 7224, 3419, 50187>>,
    <<23423, 61051, 52692, 1842, 36098, 5259, 42265, 6747, 3667, 15004>>,
    <<30358, 53171, 57566, 29279, 62793, 17625, 5455, 18213, 20747, 21863>>,
    <<21387, 1135, 57807, 61952, 10974, 51597, 4842, 21119, 36934, 6826>>,
    <<11494, 37609, 9393, 38895, 20202, 49841, 14367, 6759, 48683, 47515>>,
    <<60894, 58034, 62964, 18412, 22400, 43371, 36384, 12402, 58633, 20959>>,
    <<5136, 12440, 1541, 63038, 40460, 38630, 53434, 21822, 4014, 47719>>,
    <<7730, 3844, 39632, 58733, 48567, 11452, 15138, 783, 42102, 18072>>,
    <<4098, 59961, 35972, 34792, 14085, 51362, 38851, 60782, 58682, 59588>>,
    <<5411, 12208, 3255, 8068, 47626, 47360, 28120, 3579, 3784, 28096>>,
    <<15317, 13586, 11951, 11719, 23138, 18440, 42232, 36265, 48747, 36967>>,
    <<13391, 36395, 4834, 2336, 34755, 37129, 41933, 39417, 9680, 7017>>,
    <<7733, 37372, 41199, 43639, 65001, 44873, 49144, 19205, 63639, 23096>>,
    <<182, 63145, 42733, 8446, 55674, 17514, 17301, 18802, 51520, 23341>>,
    <<55191, 21501, 33759, 62500, 5119, 12691, 25849, 3907, 64694, 56976>>,
    <<63863, 20644, 36919, 5751, 27295, 48420, 33413, 62335, 38807, 63592>>,
    <<35761, 4513, 58956, 26227, 4423, 32765, 16436, 54084, 22492, 26190>>,
    <<16395, 25519, 21268, 38235, 7223, 47507, 3972, 609, 58681, 49303>>,
    <<31889, 2607, 31705, 47343, 61082, 47786, 42240, 8866, 63359, 5685>>,
    <<2354, 1576, 64766, 3841, 47221, 53017, 37222, 39963, 23149, 21175>>,
    <<28167, 22170, 59151, 14539, 21815, 38531, 47393, 14691, 61269, 35410>>,
    <<25647, 22515, 64064, 56517, 16508, 42370, 13747, 60925, 55286, 59357>>,
    <<29885, 8460, 44334, 54931, 9491, 16952, 48577, 43887, 5327, 41251>>,
    <<43409, 64203, 12901, 49720, 17665, 64072, 47135, 51509, 14956, 38298>>,
    <<42368, 39561, 37683, 33508, 48284, 24403, 19744, 4187, 55886, 61038>>,
    <<47018, 31665, 53397, 57380, 52992, 44398, 27181, 43502, 49202, 37878>>,
    <<12659, 56037, 54689, 14142, 23694, 2223, 25273, 3240, 28788, 40951>>,
    <<53789, 51891, 43999, 49567, 1568, 14454, 49099, 33857, 52236, 8354>>,
    <<7224, 902, 13752, 2880, 30064, 27865, 38732, 53921, 57867, 45766>>,
    <<56212, 18134, 53456, 41719, 18928, 3303, 24325, 51195, 3616, 34808>>,
    <<48445, 48059, 21785, 34059, 58463, 14994, 7799, 11086, 50379, 9022>>,
    <<21256, 23875, 43984, 18571, 33257, 24155, 14530, 12429, 20825, 33921>>,
    <<31163, 22159, 2459, 26226, 6836, 14408, 26422, 39254, 44332, 24509>>,
    <<25243, 42859, 30469, 22417, 38032, 615, 8215, 25369, 51825, 60758>>,
    <<43473, 48851, 37689, 15530, 34490, 38301, 64649, 1802, 23536, 23338>>,
    <<29353, 32653, 42202, 64817, 58543, 38672, 46531, 5061, 515, 7729>>,
    <<15997, 28916, 10130, 41545, 58259, 57420, 29321, 44115, 31849, 12338>>,
    <<49723, 58372, 53974, 18985, 19454, 13072, 51482, 49567, 64310, 41795>>,
    <<57480, 57769, 18781, 56117, 5216, 26320, 58647, 17574, 48002, 17244>>,
    <<50861, 36494, 39781, 54320, 37560, 29203, 20193, 675, 19243, 29218>>,
    <<31824, 55984, 24149, 15665, 63422, 14499, 41695, 51788, 45910, 57029>>,
    <<10049, 7770, 13050, 1655, 18850, 37821, 47181, 44329, 26312, 10072>>,
    <<60987, 7183, 65377, 43306, 51449, 28875, 42791, 28429, 29547, 55270>>,
    <<48460, 41447, 26939, 52890, 48430, 34236, 28417, 1175, 57589, 13027>>,
    <<16060, 7045, 49169, 9494, 5720, 23397, 43219, 53255, 14229, 46242>>,
    <<10949, 5943, 7852, 12727, 9764, 15910, 1382, 43643, 9438, 40416>>,
    <<38817, 16509, 59986, 27621, 44570, 9353, 6303, 56512, 30672, 4207>>,
    <<7048, 9171, 53260, 24535, 16775, 43645, 39774, 35519, 62378, 991>>,
    <<36322, 27044, 41757, 36260, 38707, 8310, 10121, 11242, 64684, 8902>>,
    <<58132, 17073, 123, 23448, 23155, 3191, 51015, 22863, 15059, 27215>>,
    <<59355, 49555, 61306, 56226, 21535, 1343, 35469, 7112, 25229, 7951>>,
    <<43649, 21603, 55978, 31884, 29474, 58393, 10517, 62588, 63324, 3981>>,
    <<30655, 8153, 34039, 13664, 37117, 21298, 5105, 13031, 22570, 17623>>,
    <<9996, 969, 11771, 41230, 1273, 49947, 15706, 61385, 5752, 4807>>,
    <<18504, 59185, 12312, 59022, 24504, 31148, 8531, 58850, 27115, 33271>>,
    <<12677, 2378, 35397, 63656, 36160, 8469, 56948, 5567, 41195, 52088>>,
    <<39536, 60971, 32772, 54190, 24062, 19335, 25655, 60768, 29707, 9489>>,
    <<15575, 45379, 41987, 10516, 28906, 46618, 42813, 41620, 17067, 7538>>,
    <<54612, 24473, 13083, 62428, 54631, 24168, 35280, 62850, 60195, 59356>>,
    <<12944, 3958, 23591, 45082, 50434, 23126, 44930, 40084, 12269, 2688>>,
    <<54724, 42275, 54487, 48094, 60985, 18421, 51929, 26482, 53735, 53696>>,
    <<29618, 40387, 61042, 16425, 63942, 12702, 43606, 53062, 57304, 18918>>,
    <<27475, 13445, 31183, 1044, 20957, 13859, 9219, 59378, 6891, 17385>>,
    <<284, 37983, 12494, 11450, 64581, 12089, 33807, 598, 37683, 40002>>,
    <<29025, 41536, 36999, 58258, 53096, 21917, 56009, 61878, 19207, 20748>>,
    <<15521, 37565, 30040, 30727, 37700, 20339, 13932, 22742, 3229, 30581>>,
    <<22058, 22547, 44624, 37479, 1155, 1520, 52545, 6882, 44443, 57738>>,
    <<3554, 40798, 50259, 48639, 43699, 56911, 22318, 46904, 48617, 42211>>,
    <<30798, 37440, 5464, 13445, 11775, 17802, 29452, 52917, 553, 57138>>,
    <<253, 19269, 18849, 2378, 44690, 28406, 11933, 48444, 56514, 58454>>,
    <<53109, 31125, 19363, 31023, 27200, 1100, 13042, 36790, 11024, 34367>>,
    <<7341, 60566, 53985, 39288, 60298, 30405, 47031, 61275, 33225, 58102>>,
    <<35277, 6585, 21952, 55862, 30493, 5059, 51572, 27639, 59511, 41980>>,
    <<61112, 61915, 52542, 60843, 25693, 23224, 37841, 39380, 37975, 39923>>,
    <<2075, 59331, 28863, 40571, 19566, 26978, 30401, 45781, 30243, 45675>>,
    <<37333, 58994, 33344, 56702, 56454, 26418, 49498, 22185, 13519, 2711>>,
    <<41919, 9169, 22941, 62996, 32068, 19294, 60192, 59969, 42785, 43728>>,
    <<31128, 7616, 14719, 41494, 55041, 1889, 42772, 48212, 34248, 37498>>,
    <<9494, 32580, 20463, 43804, 39197, 61297, 10337, 13369, 56285, 42216>>,
    <<27904, 37459, 19720, 3824, 10991, 3230, 61231, 40016, 44599, 4497>>,
    <<7856, 7230, 50299, 62506, 64924, 10990, 33149, 53772, 23032, 61590>>,
    <<2103, 28591, 47411, 62505, 46871, 27358, 24835, 62932, 20606, 1097>>,
    <<53161, 46718, 10671, 46863, 22062, 15763, 37361, 48430, 54937, 2018>>,
    <<52757, 23489, 21045, 21241, 62927, 60977, 23966, 9180, 3149, 1178>>,
    <<20525, 61047, 45731, 19694, 19745, 52769, 34994, 50586, 62402, 39515>>,
    <<64000, 18563, 48596, 60458, 29154, 16442, 52970, 13086, 42121, 8074>>,
    <<39589, 55579, 60694, 30378, 2357, 32688, 25795, 42100, 27347, 61757>>,
    <<55928, 3059, 3692, 28351, 32852, 39927, 38879, 58742, 40467, 22910>>,
    <<6120, 39989, 39026, 62821, 39773, 30866, 47758, 21122, 7315, 61171>>,
    <<24973, 52731, 3289, 44612, 33046, 18785, 50297, 28120, 58259, 3213>>,
    <<2506, 55343, 17350, 64752, 17239, 45429, 52724, 30266, 15791, 39561>>,
    <<24706, 39312, 35940, 60586, 17247, 4765, 3139, 18929, 13835, 41380>>,
    <<53300, 39986, 55448, 40511, 56017, 32077, 51643, 1335, 17024, 60159>>,
    <<8867, 26341, 30972, 6482, 23527, 7019, 12307, 61324, 50635, 6772>>,
    <<23211, 1795, 55525, 1277, 26808, 10716, 65234, 28869, 40785, 57919>>,
    <<10619, 60161, 56609, 50594, 43728, 2522, 27323, 37332, 48143, 56429>>,
    <<9185, 7607, 46, 12922, 54091, 41495, 36843, 17358, 12914, 33190>>,
    <<7531, 57957, 47358, 21049, 26971, 15868, 12914, 2008, 55948, 55680>>,
    <<49992, 49529, 19952, 18948, 29601, 4660, 14494, 29858, 13955, 14370>>,
    <<54953, 17677, 49285, 21974, 60666, 63254, 11858, 26612, 486, 56730>>,
    <<16751, 36718, 4179, 28903, 47568, 64920, 12609, 61451, 24884, 30712>>,
    <<21494, 47949, 58154, 55825, 36230, 27344, 63610, 47877, 32912, 32369>>,
    <<1325, 64470, 46566, 2517, 62313, 33177, 39940, 43425, 1391, 14447>>,
    <<4510, 51570, 48936, 29862, 12965, 2194, 50601, 58077, 40703, 54879>>,
    <<12895, 61955, 50875, 3105, 59220, 30426, 48851, 22174, 24381, 38766>>,
    <<24189, 55431, 46702, 5096, 48577, 63476, 11269, 18772, 34396, 28340>>,
    <<50430, 35157, 4529, 45287, 30126, 21758, 54941, 49043, 8887, 16634>>,
    <<63158, 11093, 50128, 15690, 23664, 2092, 55259, 347, 52024, 21026>>,
    <<63628, 29973, 25172, 5017, 22778, 65514, 52574, 34716, 58150, 52735>>,
    <<49415, 49931, 30875, 53177, 17237, 25516, 22477, 41454, 30032, 45438>>,
    <<56372, 64146, 8673, 22386, 43469, 24719, 59546, 36199, 11480, 6560>>,
    <<51576, 55966, 15816, 64125, 47526, 13467, 26689, 26155, 33992, 8758>>,
    <<22587, 31233, 29718, 21301, 61154, 40759, 44002, 3717, 52902, 2497>>,
    <<24652, 61323, 52642, 14128, 57121, 65242, 30299, 9933, 38554, 63630>>,
    <<27137, 10709, 39588, 38524, 1575, 50368, 32826, 57769, 42143, 28125>>,
    <<9139, 28324, 63238, 28846, 14202, 22815, 56323, 54122, 39915, 46209>>,
    <<28848, 24383, 35161, 20714, 7471, 27944, 62803, 45039, 15106, 51063>>,
    <<21136, 21340, 31072, 48842, 42442, 51844, 47338, 45092, 33812, 27588>>,
    <<62357, 59323, 19158, 26232, 35243, 9126, 41467, 49544, 36272, 39783>>,
    <<7158, 22830, 53041, 31900, 55033, 11179, 36891, 31429, 56687, 41647>>,
    <<34164, 40581, 46593, 14175, 48493, 27898, 63081, 20056, 11784, 53478>>,
    <<12522, 17423, 29453, 53202, 14283, 41688, 38598, 3497, 63974, 26704>>,
    <<45399, 48406, 65066, 3203, 21267, 63734, 57975, 27649, 41798, 23158>>,
    <<33570, 62854, 50842, 43756, 29624, 27457, 27320, 52148, 61215, 8178>>,
    <<16020, 22998, 27435, 63034, 3916, 64988, 11025, 31300, 19405, 27285>>,
    <<44774, 59339, 41091, 28920, 58182, 49830, 9859, 29380, 3047, 8119>>,
    <<27250, 36446, 31955, 45490, 46431, 38687, 52310, 28746, 2453, 5454>>,
    <<47882, 63846, 34832, 21273, 48658, 11525, 43803, 9404, 2487, 343>>,
    <<6905, 56094, 9634, 10457, 22225, 50045, 45524, 15120, 13975, 31444>>,
    <<33291, 27283, 3704, 40222, 47518, 18839, 31939, 24813, 34541, 31503>>,
    <<52333, 8212, 25070, 49753, 21200, 17355, 4570, 24109, 64717, 20578>>,
    <<53256, 15883, 20973, 49863, 29213, 48567, 54701, 12286, 27313, 49389>>,
    <<30848, 17218, 48638, 17873, 4361, 37439, 43702, 64783, 62435, 41300>>,
    <<2854, 42495, 11506, 32071, 40261, 30837, 40064, 45909, 55592, 26822>>,
    <<63872, 60964, 26453, 26971, 64759, 41794, 8574, 2880, 28364, 53885>>,
    <<40903, 2867, 37301, 64142, 25370, 49571, 26793, 921, 12714, 9995>>,
    <<41894, 36427, 47038, 62833, 8970, 36251, 3349, 45453, 43493, 52114>>,
    <<5136, 8388, 24737, 30586, 16450, 65232, 33732, 23987, 38185, 3223>>,
    <<16657, 59817, 39819, 17561, 53694, 22596, 18165, 7476, 12131, 40854>>,
    <<23832, 15636, 63046, 56510, 49426, 56115, 25620, 15209, 20570, 34418>>,
    <<12852, 32, 65061, 37675, 19901, 33624, 14800, 33774, 35179, 40328>>,
    <<38468, 11431, 50869, 7452, 27282, 13869, 30759, 38363, 1627, 61361>>,
    <<35712, 15916, 38202, 25951, 40263, 25015, 4622, 49062, 41390, 57354>>,
    <<42670, 10085, 18275, 54408, 9238, 8792, 8244, 24528, 7388, 35314>>,
    <<49296, 39991, 46667, 56437, 22369, 19400, 48334, 40914, 16689, 19900>>,
    <<24751, 20688, 33951, 46115, 19596, 43510, 64918, 20165, 21190, 1050>>,
    <<31151, 57421, 2761, 56486, 23400, 11452, 37303, 58831, 4683, 19482>>,
    <<7170, 54121, 21420, 22800, 334, 19386, 7678, 42401, 33910, 458>>,
    <<22950, 14558, 59190, 9128, 35911, 48747, 61565, 16128, 61000, 19221>>,
    <<48345, 36153, 40472, 17673, 35654, 12121, 45837, 35863, 11922, 27705>>,
    <<57494, 47626, 1293, 56870, 63228, 59798, 10813, 42023, 51076, 26999>>,
    <<36747, 21401, 50252, 59841, 6452, 24446, 16971, 28429, 55305, 12992>>,
    <<2174, 223, 1429, 37831, 14103, 54693, 62916, 17991, 16440, 4093>>,
    <<63123, 64064, 47769, 59442, 28726, 40697, 34166, 14000, 28648, 55353>>,
    <<19257, 2609, 64679, 10578, 38137, 21498, 64063, 58013, 47141, 1751>>,
    <<66, 48511, 49000, 32816, 15946, 2851, 12998, 10375, 40240, 17288>>,
    <<63674, 55029, 7835, 49765, 20936, 18286, 49929, 30840, 25331, 27570>>,
    <<15748, 32779, 8523, 8388, 43995, 14757, 65313, 44471, 55433, 39137>>,
    <<18909, 30800, 29295, 23946, 61335, 29963, 60792, 26667, 6669, 17677>>,
    <<4610, 17007, 9620, 16227, 22292, 35906, 21497, 8655, 14757, 21122>>,
    <<27011, 18376, 47634, 43411, 9565, 24143, 31797, 9730, 55512, 42142>>,
    <<24391, 41754, 19048, 53660, 5077, 28798, 62730, 21177, 28128, 31456>>,
    <<22159, 53731, 30706, 27129, 47065, 3258, 26710, 4992, 45252, 388>>,
    <<10305, 50992, 42955, 7610, 58090, 28380, 48861, 23867, 57203, 7708>>,
    <<10482, 19539, 57372, 965, 29828, 35875, 17958, 9674, 8374, 54393>>,
    <<53802, 16016, 26136, 57954, 25444, 47429, 44951, 58438, 46873, 47087>>,
    <<52942, 31548, 5372, 33445, 48577, 61121, 2042, 17780, 50156, 65176>>,
    <<61591, 51581, 2806, 11777, 8648, 54696, 44574, 60854, 31059, 38581>>,
    <<24544, 35388, 49052, 41644, 36125, 39623, 7471, 39952, 8170, 33535>>,
    <<62268, 12259, 8532, 56998, 16533, 10119, 45854, 37786, 27576, 6408>>,
    <<36383, 39756, 28400, 20535, 61193, 13007, 28842, 28824, 63285, 16501>>,
    <<51573, 36315, 2456, 61728, 60606, 54389, 62743, 39308, 46070, 21643>>,
    <<51299, 20276, 29602, 32438, 39211, 38685, 5271, 16103, 50336, 7012>>,
    <<62286, 13703, 16215, 6560, 50304, 36239, 61107, 10205, 61390, 35121>>,
    <<8987, 2877, 38552, 49632, 19275, 24474, 63687, 24195, 12293, 663>>,
    <<36988, 64366, 47623, 56794, 64217, 61556, 59155, 51433, 10993, 43774>>,
    <<7294, 15011, 27418, 15252, 21332, 57620, 48138, 37827, 31266, 40224>>,
    <<44812, 27684, 9906, 16067, 22263, 21402, 27738, 65333, 41557, 27196>>,
    <<28430, 41836, 60984, 8958, 20746, 51356, 24146, 63780, 59916, 12633>>,
    <<31036, 16841, 47183, 28513, 36648, 8819, 54688, 38727, 30396, 58812>>,
    <<64195, 7671, 56566, 60266, 25999, 22225, 33779, 52407, 6267, 41845>>,
    <<13930, 35724, 57881, 61888, 1245, 37298, 22085, 4439, 50272, 60549>>,
    <<76, 61912, 40703, 25202, 56945, 3403, 65330, 11074, 60301, 54816>>,
    <<22233, 31657, 39774, 37865, 49844, 20937, 56858, 19989, 38833, 34951>>,
    <<32213, 5151, 64398, 43359, 61667, 45075, 35595, 13854, 13810, 43988>>,
    <<45823, 45968, 9979, 33751, 14981, 17362, 54397, 38626, 11916, 33982>>,
    <<50514, 36898, 26563, 41920, 37131, 49390, 24075, 11652, 50516, 48334>>,
    <<15274, 10130, 53771, 43111, 62990, 33839, 50308, 16577, 57262, 53174>>,
    <<16546, 20818, 18942, 48881, 46165, 61024, 15116, 2234, 2968, 19547>>,
    <<24877, 40643, 19421, 52754, 8258, 56140, 5182, 34524, 42581, 48149>>,
    <<34999, 9877, 51941, 11249, 35066, 64915, 47266, 3253, 64611, 21745>>,
    <<54241, 15263, 59476, 61190, 50775, 13941, 12196, 522, 28662, 37602>>,
    <<60063, 7888, 52646, 45917, 6743, 48250, 17391, 19618, 58284, 30851>>,
    <<38491, 14451, 19285, 36937, 995, 62177, 22683, 39351, 27002, 17734>>,
    <<52765, 13891, 3652, 34450, 53310, 3197, 33465, 11109, 34513, 29957>>,
    <<26468, 26073, 6829, 33132, 19421, 737, 17438, 43568, 15083, 27406>>,
    <<389, 29549, 12501, 11632, 44172, 58200, 29038, 22211, 8267, 14075>>,
    <<21660, 45348, 61599, 49461, 26956, 54076, 29001, 32138, 41838, 46089>>,
    <<32209, 51165, 31935, 52652, 32720, 55673, 5058, 10869, 59996, 23808>>,
    <<46725, 40702, 57754, 53602, 1265, 43424, 27390, 45999, 51529, 35159>>,
    <<9915, 27074, 26701, 9077, 38585, 57575, 18910, 30228, 9389, 51131>>,
    <<37238, 21825, 21168, 40181, 53651, 3412, 4791, 53756, 39267, 49649>>,
    <<1756, 62922, 7138, 40195, 62908, 1726, 56751, 29223, 31967, 26973>>,
    <<60665, 27708, 43568, 59858, 59758, 27422, 1092, 55386, 22685, 42230>>,
    <<51428, 15475, 63208, 57894, 28225, 1283, 25995, 17278, 58584, 25956>>,
    <<46410, 61912, 40313, 21232, 31421, 12437, 5867, 60880, 13899, 15717>>,
    <<46097, 34818, 28739, 5123, 11455, 132, 39889, 23003, 35078, 36592>>,
    <<30019, 60227, 36572, 26208, 36806, 51351, 10995, 41940, 2423, 20159>>,
    <<21149, 159, 20990, 17937, 43210, 33833, 11244, 40990, 60617, 50221>>,
    <<32633, 31664, 64075, 50643, 19612, 34795, 50851, 37380, 13081, 8627>>,
    <<22983, 28988, 46736, 43191, 50274, 22582, 57066, 59179, 11025, 10406>>,
    <<42064, 37634, 38088, 41704, 8763, 16596, 36834, 46284, 43117, 11487>>,
    <<33560, 44382, 61493, 29885, 3993, 3211, 40141, 23501, 12479, 29066>>,
    <<58944, 12005, 3704, 46612, 7609, 19588, 3239, 36919, 25190, 22322>>,
    <<60353, 59708, 35632, 6726, 24119, 48988, 25649, 40010, 47134, 4507>>,
    <<35317, 54781, 9216, 55775, 38248, 38763, 58804, 14113, 51673, 2587>>,
    <<25019, 61446, 62047, 11752, 21981, 26835, 57427, 27146, 5095, 19431>>,
    <<11899, 25277, 22814, 41535, 746, 10650, 49314, 17705, 47075, 61629>>,
    <<1343, 32110, 9741, 25267, 23297, 21676, 20901, 46650, 19530, 18738>>,
    <<65191, 63063, 62826, 10820, 36263, 54453, 13806, 24103, 40111, 15770>>,
    <<22158, 49897, 18356, 24992, 56912, 61567, 47227, 31836, 50313, 6271>>,
    <<60610, 18425, 48075, 3528, 39845, 9774, 62026, 944, 21093, 45200>>,
    <<21220, 27006, 36405, 30907, 17703, 5870, 56622, 24358, 2057, 16972>>,
    <<1998, 61803, 18087, 12083, 63141, 38820, 29572, 23326, 35296, 10126>>,
    <<10142, 58398, 24933, 31921, 58273, 11321, 38207, 22421, 50913, 7294>>,
    <<59544, 8446, 6946, 34258, 4965, 36872, 40719, 4990, 55050, 50258>>,
    <<14797, 31406, 63924, 62681, 39557, 34422, 44200, 32496, 64376, 54358>>,
    <<14441, 39897, 42732, 18025, 16730, 24962, 19578, 7654, 62470, 61058>>,
    <<12612, 732, 6020, 30043, 6301, 18682, 51535, 37986, 62208, 61393>>,
    <<33960, 62283, 10752, 15174, 544, 25490, 59476, 45525, 49919, 42938>>,
    <<42150, 12826, 55055, 1630, 22310, 40935, 11320, 44698, 19383, 35439>>,
    <<27014, 63026, 50845, 53676, 60812, 4524, 64849, 21122, 60202, 12779>>,
    <<2387, 55039, 22382, 61924, 51247, 10552, 41362, 33662, 31913, 41273>>,
    <<8498, 51354, 9434, 61946, 14883, 47092, 6905, 40135, 55156, 42110>>,
    <<26180, 60959, 51036, 25806, 34173, 31831, 21997, 47602, 12446, 14336>>,
    <<12719, 116, 39645, 34015, 33052, 64704, 9131, 27554, 51829, 41107>>,
    <<60678, 12347, 33831, 6077, 31180, 48913, 57415, 43095, 22324, 26234>>,
    <<18962, 54880, 63983, 12494, 25194, 64643, 2744, 5906, 65223, 13022>>,
    <<12756, 22890, 44917, 1210, 13234, 45543, 23201, 43807, 2072, 3763>>,
    <<56486, 33868, 2460, 57802, 48488, 37090, 62769, 358, 45335, 12472>>,
    <<13845, 59768, 4546, 64094, 31849, 36362, 34853, 38964, 8376, 45933>>,
    <<31162, 53528, 24671, 57092, 51105, 49560, 47118, 58334, 28915, 5967>>,
    <<8751, 10996, 17260, 39903, 26974, 10471, 53249, 2368, 24635, 7660>>,
    <<4382, 5711, 48959, 13825, 52361, 23419, 40559, 29289, 53338, 25429>>,
    <<21018, 1273, 38304, 19672, 64638, 19974, 58270, 31473, 10267, 3332>>,
    <<62331, 59707, 26446, 15821, 39052, 47690, 31990, 26745, 18060, 15157>>,
    <<8306, 41015, 63478, 27492, 42457, 38673, 20152, 7388, 29565, 40589>>,
    <<59162, 48505, 37064, 26820, 53864, 6959, 50432, 39672, 30658, 38899>>,
    <<10390, 16485, 9946, 55402, 28173, 22647, 14540, 58608, 8070, 46023>>,
    <<43724, 47291, 11084, 17450, 31766, 43442, 2505, 65348, 35948, 24373>>,
    <<65355, 17389, 58303, 55973, 11943, 63861, 37880, 35199, 55716, 5701>>,
    <<43966, 44414, 31084, 39882, 26147, 8224, 43292, 32206, 9908, 48484>>,
    <<38024, 63307, 3553, 62501, 34862, 39073, 40956, 40123, 18233, 6902>>,
    <<18733, 23966, 15404, 46576, 45519, 15130, 24522, 13387, 389, 22084>>,
    <<61115, 40992, 10921, 62712, 37392, 54163, 29464, 18698, 21589, 21380>>,
    <<34190, 18413, 6346, 42463, 20365, 48762, 3100, 39589, 11284, 55893>>,
    <<58154, 29348, 40770, 24776, 26334, 14405, 62102, 26125, 37821, 39007>>,
    <<11347, 1151, 52046, 21579, 20322, 57096, 9730, 3351, 52192, 20421>>,
    <<48538, 39440, 58424, 58682, 25441, 31124, 61618, 63709, 17343, 56352>>,
    <<41525, 59312, 63006, 57134, 15385, 26231, 59665, 39126, 23687, 49662>>,
    <<10541, 59607, 10436, 62099, 31991, 19261, 20705, 1123, 16512, 50927>>,
    <<29474, 48120, 22840, 32419, 7782, 46802, 61778, 46294, 38004, 52370>>,
    <<29493, 14454, 25482, 10142, 2598, 6512, 20639, 22377, 33687, 16206>>,
    <<55444, 47840, 2657, 51085, 51595, 16651, 63748, 48036, 20546, 39855>>,
    <<52088, 27421, 42617, 6507, 2342, 15836, 34166, 52738, 52631, 59816>>,
    <<2841, 36249, 61055, 28696, 63365, 39878, 16304, 40023, 35772, 23888>>,
    <<55613, 30004, 4390, 31872, 63940, 38065, 30834, 53747, 11925, 29730>>,
    <<13069, 39453, 2751, 47742, 54630, 65360, 55541, 49874, 3016, 61262>>,
    <<45444, 5359, 10278, 28616, 35864, 64899, 64473, 18316, 40980, 33705>>,
    <<27037, 62999, 55362, 30801, 43512, 11633, 9070, 8991, 64191, 36742>>,
    <<10873, 1712, 17700, 50194, 33097, 41969, 7096, 35905, 30134, 52870>>,
    <<731, 57073, 52214, 7736, 29767, 39486, 25671, 30048, 49595, 39474>>,
    <<30107, 21742, 54048, 25728, 57700, 49079, 62887, 46890, 33421, 3039>>,
    <<15797, 7535, 52379, 11102, 50552, 34348, 4389, 20053, 5677, 29216>>,
    <<28841, 170, 59490, 5047, 59085, 57184, 41893, 48858, 1203, 12696>>,
    <<47231, 30693, 28311, 18625, 26785, 10377, 25742, 65406, 43913, 44202>>,
    <<39044, 45072, 61337, 22562, 40319, 39727, 4893, 51130, 41084, 30826>>,
    <<62999, 18307, 20452, 58166, 53367, 57454, 46546, 19661, 50650, 11069>>,
    <<35157, 1087, 1246, 32994, 11488, 50917, 8275, 60107, 32147, 16114>>,
    <<21051, 49048, 17695, 46670, 29446, 19629, 32632, 35812, 61089, 62740>>,
    <<15356, 29921, 49236, 52646, 62568, 48685, 24004, 41661, 9169, 35674>>,
    <<7574, 37899, 8764, 58366, 44683, 48421, 45276, 27675, 10938, 63183>>,
    <<30347, 31792, 25108, 58329, 31835, 52550, 64716, 59062, 46049, 61094>>,
    <<9144, 57034, 52271, 2327, 61233, 7939, 41330, 57075, 18109, 31870>>,
    <<39701, 51604, 14740, 28032, 13243, 42992, 38804, 21211, 6675, 56663>>,
    <<61954, 65527, 2516, 63594, 30352, 47269, 1266, 38136, 566, 19059>>,
    <<49661, 16151, 38027, 58313, 3860, 8797, 62469, 37027, 62703, 20272>>,
    <<47780, 43581, 17459, 24257, 63996, 53794, 60881, 53481, 24842, 36319>>,
    <<44634, 55713, 61685, 7688, 13279, 59255, 31453, 25073, 59669, 38631>>,
    <<50025, 13962, 42875, 44506, 1262, 55912, 1307, 64340, 6622, 40771>>,
    <<37309, 13161, 48221, 2845, 29689, 50976, 50201, 25734, 17401, 58098>>,
    <<55551, 59545, 64247, 41435, 37127, 12334, 29960, 8794, 7516, 30638>>,
    <<34409, 10573, 13430, 9843, 42052, 37354, 53473, 30911, 16073, 9778>>,
    <<3888, 26882, 14235, 41809, 6213, 19115, 32957, 29954, 19762, 41901>>,
    <<17245, 29554, 31822, 60666, 26984, 36265, 53180, 32498, 33380, 1651>>,
    <<26962, 7322, 42707, 59728, 11012, 47939, 45060, 12283, 17079, 29823>>,
    <<65377, 13530, 13499, 3294, 10984, 13606, 26931, 59509, 40308, 13202>>,
    <<32209, 42211, 33178, 64238, 64234, 54050, 61802, 13490, 59676, 8009>>,
    <<60273, 40204, 58678, 34997, 1600, 52700, 64680, 2803, 39635, 33775>>,
    <<40809, 60279, 11140, 36703, 39490, 43028, 163, 50919, 18518, 29504>>,
    <<59946, 30531, 62103, 42240, 52884, 63231, 40841, 51678, 47613, 39420>>,
    <<33522, 7220, 867, 32097, 2314, 6406, 17727, 14534, 39098, 18975>>,
    <<29394, 57762, 59412, 23755, 37689, 54581, 46158, 60477, 24067, 7777>>,
    <<37305, 54933, 60617, 48502, 42837, 40812, 48608, 62262, 49416, 22576>>,
    <<20780, 9837, 27022, 28249, 54029, 5857, 51794, 35816, 13624, 27096>>,
    <<6088, 52231, 40221, 22240, 6505, 60117, 63256, 6405, 42747, 58609>>,
    <<29873, 41070, 46376, 13375, 25163, 34274, 28247, 20746, 38706, 44047>>,
    <<7286, 19262, 3803, 25301, 63603, 7779, 64591, 5389, 18273, 44997>>,
    <<37798, 22403, 38903, 20555, 62564, 20602, 32205, 36956, 39710, 65050>>,
    <<4850, 13387, 16355, 15904, 2456, 43901, 55495, 9476, 27550, 7939>>,
    <<30974, 23904, 7710, 61484, 56571, 24969, 55683, 17813, 26403, 33430>>,
    <<64736, 41172, 50777, 6084, 63116, 24426, 23407, 7423, 61833, 33616>>,
    <<43682, 52229, 19601, 41047, 60680, 28194, 3853, 39722, 27883, 3880>>,
    <<30273, 7517, 22821, 23119, 33252, 60389, 53144, 61292, 13155, 30554>>,
    <<48036, 9011, 44730, 28930, 3895, 6428, 63710, 1827, 28033, 41143>>,
    <<10288, 47575, 53104, 58456, 48840, 6546, 42042, 63800, 45547, 22894>>,
    <<17311, 15816, 27748, 13252, 35746, 24328, 6512, 58999, 40646, 64093>>,
    <<27500, 10252, 33843, 53198, 55186, 31033, 51481, 32384, 1192, 49953>>,
    <<8534, 51167, 49295, 23110, 23303, 10536, 55026, 27798, 4705, 8553>>,
    <<58771, 6355, 2253, 34733, 5489, 49729, 5731, 63991, 34990, 21030>>,
    <<53025, 32048, 59574, 29516, 25045, 13936, 18910, 50720, 32384, 398>>,
    <<22828, 45935, 36163, 8149, 34385, 38212, 22140, 65224, 55237, 10061>>,
    <<1314, 44118, 15509, 19764, 28875, 43403, 29712, 50486, 59955, 47974>>,
    <<33065, 62825, 40518, 24519, 24300, 38049, 31777, 61375, 59233, 36560>>,
    <<34560, 62569, 48642, 41773, 55013, 60972, 53831, 7088, 19277, 17982>>,
    <<3956, 37789, 21494, 45149, 55303, 32480, 47393, 36730, 35660, 44712>>,
    <<7316, 38653, 25197, 54011, 23848, 23634, 57376, 48633, 55006, 46241>>,
    <<63387, 36509, 15774, 1632, 29080, 64511, 7174, 3763, 47629, 6857>>,
    <<62494, 6541, 62950, 37864, 48365, 16913, 53265, 38415, 3676, 3957>>,
    <<53180, 14838, 50742, 24863, 248, 8569, 29932, 2988, 29437, 19488>>,
    <<34698, 37715, 25513, 21154, 49750, 22821, 41205, 29176, 49658, 60827>>,
    <<26296, 49245, 16656, 4846, 20570, 58274, 325, 37178, 48705, 44253>>,
    <<13539, 33713, 7162, 27450, 8295, 15337, 53914, 14394, 26902, 47209>>,
    <<57030, 9247, 16296, 54157, 19526, 59897, 62787, 61141, 28147, 46169>>,
    <<58237, 26544, 4749, 42362, 5328, 64803, 15884, 55458, 42128, 8003>>,
    <<4262, 37053, 20444, 4693, 18309, 25612, 41745, 41528, 22081, 43404>>,
    <<18405, 25476, 4572, 59935, 10222, 32207, 14818, 62891, 5640, 28352>>,
    <<42601, 51046, 7048, 62741, 18230, 35337, 51350, 48059, 9669, 32188>>,
    <<44364, 36228, 64038, 58432, 41616, 62860, 36686, 20110, 52424, 55290>>,
    <<51536, 56324, 56808, 51646, 13574, 42583, 22868, 53468, 40213, 14957>>,
    <<20124, 19690, 3861, 14779, 35452, 10721, 23511, 20064, 33748, 39673>>,
    <<44485, 1475, 61531, 3839, 9932, 19810, 32933, 53763, 39520, 56550>>,
    <<65449, 46058, 18996, 54302, 50021, 24446, 32552, 55416, 43833, 25107>>,
    <<34821, 58455, 49197, 14778, 62630, 10772, 14592, 44839, 10344, 17694>>,
    <<59295, 57086, 6231, 50336, 37779, 8285, 61003, 24169, 33261, 13889>>,
    <<37179, 46288, 14113, 16103, 17473, 39618, 9166, 15726, 32798, 36673>>,
    <<65445, 59178, 42754, 22524, 63763, 40810, 42664, 26487, 16704, 30257>>,
    <<57881, 7602, 2090, 19650, 51143, 2091, 42572, 64456, 44000, 5321>>,
    <<6949, 8036, 22301, 47976, 21039, 6664, 54271, 64992, 59477, 41734>>,
    <<41942, 15371, 1145, 44112, 52505, 40212, 41586, 23981, 61921, 59738>>,
    <<5868, 13117, 27464, 32249, 56550, 4680, 13082, 25301, 5965, 58031>>,
    <<29398, 42380, 7838, 59184, 28448, 59197, 21994, 40591, 55016, 55589>>,
    <<41438, 25854, 47835, 54397, 44789, 62554, 64671, 8351, 55911, 20542>>,
    <<19139, 62749, 41731, 3659, 55076, 6276, 48514, 52104, 17705, 41008>>,
    <<10822, 48662, 34125, 12781, 1696, 21588, 44823, 46198, 23476, 11805>>,
    <<21508, 23461, 34114, 31991, 13230, 43760, 56862, 65133, 30405, 4376>>,
    <<11473, 24373, 56777, 5065, 19804, 4325, 62735, 59226, 5926, 44904>>,
    <<34527, 65461, 14762, 9223, 55714, 39426, 16418, 30655, 48296, 21969>>,
    <<12147, 53606, 30573, 13880, 64592, 22493, 56105, 11866, 54377, 26148>>,
    <<28364, 54356, 15218, 3915, 4722, 30804, 35495, 2964, 43023, 17430>>,
    <<55840, 38004, 32288, 17060, 47667, 56155, 50665, 63525, 16070, 46998>>,
    <<10458, 25558, 7103, 2647, 20471, 1963, 48655, 27351, 5777, 23451>>,
    <<9247, 24259, 35482, 53353, 43939, 55729, 14840, 64408, 29226, 59809>>,
    <<1861, 58540, 29019, 582, 55408, 52428, 51266, 8061, 48083, 40193>>,
    <<12160, 62808, 43324, 62305, 40348, 38631, 31010, 44882, 63274, 44193>>,
    <<51301, 7345, 31243, 51119, 29581, 5353, 60489, 1299, 16618, 1821>>,
    <<34056, 53550, 23764, 14322, 33133, 2943, 57208, 29072, 61858, 31070>>,
    <<7914, 58589, 56725, 53265, 19217, 23909, 64837, 570, 42891, 31063>>,
    <<42074, 33073, 60118, 4754, 34840, 45217, 37007, 2441, 49433, 30537>>,
    <<42013, 49116, 347, 24788, 26715, 51442, 12451, 14345, 23704, 43622>>,
    <<20515, 41492, 30986, 15461, 35894, 59699, 29389, 32747, 30022, 53881>>,
    <<27009, 12520, 51611, 49763, 45701, 17368, 65377, 61306, 47408, 62268>>,
    <<49045, 6336, 50382, 11181, 59920, 3417, 29628, 29249, 51306, 1545>>,
    <<22784, 3755, 16732, 11648, 12582, 10461, 57037, 12004, 58969, 25426>>,
    <<51513, 32472, 63801, 37224, 26895, 50623, 34289, 12317, 1479, 17023>>,
    <<62829, 25425, 43633, 53232, 57022, 40980, 53557, 9700, 8246, 6266>>,
    <<47842, 53961, 25044, 33785, 42771, 12690, 7303, 33366, 2259, 54366>>,
    <<61469, 40, 31549, 43781, 57119, 57788, 57282, 49579, 26799, 64669>>,
    <<6935, 47665, 52030, 6350, 36769, 39660, 29186, 18902, 8313, 55057>>,
    <<14288, 62631, 34233, 28628, 32484, 47068, 57708, 17085, 44608, 45598>>,
    <<62410, 51185, 7186, 39910, 56167, 3429, 12955, 60486, 19228, 62871>>,
    <<11186, 48783, 34025, 47918, 40639, 54222, 7385, 29944, 26454, 37792>>,
    <<16570, 51264, 7448, 24773, 23116, 22376, 42752, 20532, 48347, 38142>>,
    <<15342, 30547, 24531, 58153, 37423, 32830, 30529, 22461, 61522, 55831>>,
    <<50279, 53986, 42499, 34821, 41555, 54110, 60745, 56550, 54127, 30578>>,
    <<5266, 6961, 54103, 47463, 49008, 25601, 1490, 58137, 15422, 60921>>,
    <<3877, 36497, 19400, 44312, 22819, 408, 43277, 17156, 4161, 3109>>,
    <<60907, 6517, 6801, 9809, 35569, 52009, 64456, 3905, 41519, 9792>>,
    <<55941, 37767, 23148, 30592, 62037, 65271, 58528, 34724, 64371, 43804>>,
    <<48913, 16842, 19744, 15695, 35607, 3911, 38515, 33184, 29088, 49138>>,
    <<61533, 62447, 46779, 7458, 8822, 29022, 11313, 20657, 34160, 55711>>,
    <<37266, 18761, 50375, 33111, 42638, 8584, 59849, 12206, 45083, 7761>>,
    <<51688, 26147, 33259, 31074, 56579, 310, 49522, 25423, 55292, 49705>>,
    <<22245, 14174, 42791, 44097, 52113, 45298, 48201, 44070, 19020, 44546>>,
    <<20684, 1408, 49121, 36589, 5541, 47040, 38191, 40451, 42097, 30763>>,
    <<63641, 250, 19736, 26341, 856, 45450, 20526, 62297, 27976, 8696>>,
    <<31363, 35665, 50192, 7261, 6866, 63342, 16185, 37506, 37864, 55726>>,
    <<2314, 40256, 53259, 44771, 28275, 64672, 3616, 19201, 32087, 39352>>,
    <<17424, 42857, 64847, 21002, 40440, 24120, 42872, 58733, 37213, 62518>>,
    <<24448, 53435, 24853, 38898, 61839, 58852, 30373, 31515, 14658, 19071>>,
    <<3346, 34435, 14166, 16820, 35117, 3435, 24398, 35157, 1469, 48522>>,
    <<31766, 24997, 33620, 21999, 61724, 12220, 36579, 9334, 53038, 23434>>,
    <<44243, 2824, 45938, 30793, 24611, 60153, 53682, 62280, 35047, 20064>>,
    <<34666, 5449, 60270, 36105, 16929, 2888, 18182, 44207, 22520, 26881>>,
    <<14042, 65056, 35215, 31650, 54851, 2418, 24404, 37352, 37044, 2748>>,
    <<23524, 6657, 42776, 35057, 9020, 37345, 59511, 41762, 29163, 19722>>,
    <<43560, 24420, 7090, 9380, 7115, 39593, 48314, 27328, 58620, 33913>>,
    <<58761, 47219, 50375, 23938, 41351, 61117, 27621, 45048, 56778, 47363>>,
    <<33128, 50182, 62869, 12973, 34060, 27671, 27697, 38967, 5901, 27518>>,
    <<12225, 23623, 25956, 31960, 16946, 38486, 9779, 16649, 44262, 18271>>,
    <<28598, 51773, 50266, 23911, 27678, 27315, 190, 37698, 52942, 6095>>,
    <<2393, 25325, 8671, 49353, 11720, 17914, 22751, 48214, 8679, 8495>>,
    <<56679, 57942, 58186, 16693, 60343, 26458, 48622, 10125, 4451, 5058>>,
    <<48000, 57792, 58493, 16439, 51143, 5066, 62696, 48554, 7768, 27624>>,
    <<12144, 1821, 35708, 11227, 52048, 5756, 60430, 56365, 57228, 22618>>,
    <<56009, 16903, 16845, 26459, 35565, 3994, 10061, 47406, 42594, 63466>>,
    <<37236, 58047, 34799, 47740, 1980, 19637, 26796, 58722, 19483, 52355>>,
    <<29598, 2752, 2610, 28979, 27362, 55029, 19049, 37444, 42678, 46620>>,
    <<6128, 38849, 42067, 39386, 25460, 10237, 23502, 22940, 3391, 15096>>,
    <<39417, 56127, 56500, 27877, 50642, 54950, 57266, 34432, 29312, 51618>>,
    <<58155, 40355, 21512, 33833, 45501, 7615, 60568, 57673, 24187, 7530>>,
    <<39019, 62449, 57705, 41069, 32813, 48351, 35505, 47390, 5008, 63220>>,
    <<17366, 59010, 51692, 65502, 32726, 35004, 52916, 14081, 6895, 4426>>,
    <<21753, 62203, 12203, 12920, 54765, 33268, 6519, 23940, 4413, 10278>>,
    <<5186, 27352, 30508, 37922, 64909, 6728, 21520, 53648, 26071, 15216>>,
    <<34961, 716, 58821, 43573, 63503, 63056, 61382, 11126, 41803, 1976>>,
    <<54971, 6234, 17576, 36732, 54327, 55722, 25860, 4346, 27654, 1379>>,
    <<17680, 58506, 7411, 7212, 47509, 42351, 4268, 21653, 52607, 14591>>,
    <<53138, 10428, 27265, 38423, 46521, 14, 24824, 54754, 16148, 16794>>,
    <<25033, 6291, 36805, 13744, 26860, 49982, 64450, 12816, 21785, 23490>>,
    <<39004, 9765, 8867, 34775, 36765, 33914, 24510, 8215, 8131, 31686>>,
    <<26060, 3064, 44676, 2714, 64804, 52575, 23444, 52353, 4974, 57114>>,
    <<36122, 31912, 62855, 36492, 19451, 39756, 13024, 50481, 53239, 47960>>,
    <<25940, 56458, 36666, 54940, 56521, 37274, 36678, 65179, 29299, 39425>>,
    <<29529, 7470, 11728, 1394, 3879, 24232, 335, 29894, 22068, 61909>>,
    <<60902, 9825, 41787, 43967, 10941, 19616, 37620, 37809, 8992, 33895>>,
    <<8446, 60263, 35852, 40126, 43234, 58292, 46624, 37515, 63331, 59302>>,
    <<64831, 26093, 1128, 39996, 44207, 45053, 53675, 47850, 10629, 12185>>,
    <<17748, 11590, 30056, 55271, 58274, 30644, 31064, 32716, 2251, 44291>>,
    <<24307, 20840, 59112, 19309, 61473, 32133, 17144, 10633, 57565, 23041>>,
    <<64461, 50047, 46166, 47067, 42846, 11228, 38267, 36151, 10047, 46205>>,
    <<56333, 42064, 53547, 51010, 12365, 51353, 41188, 59627, 28007, 28543>>,
    <<2624, 31600, 58037, 10302, 63304, 57758, 18619, 34385, 21975, 17050>>,
    <<59640, 45910, 39001, 48830, 9852, 1874, 3623, 55269, 34947, 15451>>,
    <<5298, 10446, 9553, 56334, 5126, 44227, 10307, 20695, 2015, 61223>>,
    <<43290, 9467, 2785, 35283, 46295, 31902, 15174, 25136, 20901, 7903>>,
    <<49616, 29134, 60721, 65198, 55925, 4825, 48263, 32274, 53386, 54171>>,
    <<15173, 61924, 4860, 28601, 21719, 32699, 28209, 60349, 19503, 51911>>,
    <<30121, 19773, 62583, 30630, 28346, 55055, 25710, 61738, 45859, 20924>>,
    <<12042, 1538, 3614, 34240, 9887, 54920, 22710, 11972, 50620, 51733>>,
    <<4734, 58315, 32698, 55298, 27076, 54646, 42766, 30773, 37857, 45887>>,
    <<18604, 32555, 13159, 16074, 33895, 61233, 49705, 55932, 22199, 13637>>,
    <<6984, 40678, 46828, 22464, 20267, 29105, 63254, 31509, 25745, 64948>>,
    <<17151, 25750, 23265, 48105, 35159, 1045, 43864, 21600, 44842, 64177>>,
    <<17724, 40380, 64767, 20115, 43735, 49796, 4137, 51169, 40891, 38030>>,
    <<34463, 34161, 57326, 19185, 44329, 41800, 30838, 27386, 49581, 53067>>,
    <<38456, 38094, 61090, 5491, 62026, 53348, 51888, 43136, 10849, 21236>>,
    <<44860, 54039, 36638, 31745, 60536, 42639, 44000, 47254, 47202, 9603>>,
    <<10364, 51743, 625, 17037, 62865, 36060, 38173, 7552, 23251, 34934>>,
    <<27410, 32702, 2761, 9153, 28153, 24713, 53106, 20991, 17258, 32279>>,
    <<32092, 45165, 61549, 57986, 44168, 19484, 22457, 53851, 57702, 53620>>,
    <<6612, 12008, 5958, 42832, 23313, 1332, 46256, 24268, 59873, 65288>>,
    <<15661, 43628, 47392, 15829, 59772, 21438, 56356, 60654, 51388, 7461>>,
    <<49243, 55776, 33237, 37192, 46168, 820, 45888, 1298, 36004, 65243>>,
    <<6291, 55182, 40590, 46217, 8046, 1023, 31783, 24925, 23849, 47965>>,
    <<18699, 64557, 36317, 1378, 59938, 15989, 44502, 6008, 24254, 63969>>,
    <<64457, 24693, 57236, 3608, 28297, 53295, 36536, 793, 2643, 35796>>,
    <<17047, 17521, 23292, 8762, 6246, 41310, 38203, 42453, 62078, 38941>>,
    <<46528, 26145, 25667, 23503, 54356, 33905, 32521, 2104, 51163, 38575>>,
    <<34954, 49198, 25517, 53081, 61860, 835, 28922, 43455, 46584, 6643>>,
    <<39196, 1633, 59235, 56122, 55928, 7555, 44927, 9766, 6578, 6328>>,
    <<56906, 44932, 37551, 43187, 1955, 53518, 1621, 9233, 16469, 44153>>,
    <<1050, 14731, 59760, 45391, 27872, 36713, 14911, 4817, 139, 35302>>,
    <<18274, 34417, 12867, 7736, 17175, 63870, 19349, 28810, 31610, 65122>>,
    <<47255, 22942, 44932, 60453, 56255, 33658, 37895, 42287, 48645, 26216>>,
    <<3953, 31638, 47375, 16648, 9284, 23552, 61169, 44372, 42345, 31943>>,
    <<61041, 34821, 12155, 56426, 52562, 47554, 16023, 5898, 8249, 19393>>,
    <<37279, 25767, 7869, 37169, 14821, 23681, 15162, 14266, 1734, 26706>>,
    <<10354, 35769, 57329, 30061, 14105, 51585, 34924, 31622, 10604, 5525>>,
    <<20105, 40640, 30905, 36564, 41676, 6188, 55722, 36148, 13310, 12133>>,
    <<15532, 58313, 22167, 54597, 60462, 57395, 7585, 48872, 59590, 52734>>,
    <<51252, 23131, 28599, 45475, 3436, 50572, 48449, 13920, 34619, 29469>>,
    <<10821, 9211, 20566, 40769, 19634, 54116, 39295, 52213, 65133, 51572>>,
    <<56123, 56400, 1486, 44541, 7714, 64065, 11667, 46336, 7833, 53330>>,
    <<44051, 2712, 40718, 28379, 25480, 42506, 54764, 12437, 36031, 61780>>,
    <<64929, 63745, 12814, 59723, 48217, 29767, 34750, 18396, 30970, 40373>>,
    <<11736, 48327, 5701, 35523, 27964, 62497, 51884, 22993, 42715, 19403>>,
    <<61223, 30065, 34204, 54833, 37312, 26138, 46454, 1258, 7728, 26210>>,
    <<7104, 16515, 20914, 13865, 51664, 9118, 26582, 45907, 12573, 36885>>,
    <<40625, 65466, 2453, 23549, 43701, 55970, 63864, 56561, 30124, 36587>>,
    <<36356, 10125, 58820, 24152, 6892, 419, 62106, 1826, 31276, 5772>>,
    <<25183, 6867, 6739, 15049, 62274, 38313, 49595, 38026, 46293, 28876>>,
    <<35569, 48795, 46217, 14878, 46542, 2939, 22103, 58954, 14560, 13815>>,
    <<17140, 24570, 2704, 43445, 7340, 8047, 21955, 11967, 65535, 56182>>,
    <<11288, 29154, 54767, 11291, 47424, 11434, 50621, 11849, 19973, 48851>>,
    <<51801, 60409, 9375, 8849, 23214, 2483, 43377, 11739, 34978, 49024>>,
    <<39747, 4915, 26464, 56202, 33857, 45320, 53874, 35886, 50580, 56304>>,
    <<41232, 14679, 15865, 42076, 49166, 33096, 22988, 21273, 21564, 7079>>,
    <<8161, 60851, 55761, 30606, 56860, 32001, 57679, 35510, 306, 39409>>,
    <<62179, 35912, 39147, 21058, 10085, 24242, 31646, 64411, 17290, 59671>>,
    <<59529, 34074, 43246, 57019, 55047, 30503, 44884, 11159, 17022, 10291>>,
    <<35283, 58155, 45160, 15092, 43683, 50377, 45459, 48473, 52679, 13684>>,
    <<53653, 43627, 43425, 22657, 607, 1049, 15066, 28200, 18388, 23172>>,
    <<4617, 24436, 9317, 58200, 61609, 48514, 12537, 55438, 25929, 40630>>,
    <<33275, 58124, 26686, 12385, 54015, 17142, 14313, 49628, 41279, 57118>>,
    <<29025, 59502, 12966, 26003, 14261, 46935, 51697, 30751, 28353, 24960>>,
    <<50667, 55307, 4733, 59307, 36971, 43180, 23616, 9682, 28880, 7646>>,
    <<43846, 11602, 31470, 42105, 18792, 30987, 33227, 24608, 53635, 125>>,
    <<39741, 23771, 59539, 64659, 60403, 38276, 40426, 36108, 4179, 34316>>,
    <<43537, 4100, 2655, 23831, 33098, 14918, 17078, 6010, 12752, 29724>>,
    <<245, 8761, 11500, 33423, 18092, 6049, 20362, 7888, 15343, 63170>>,
    <<59223, 24132, 24531, 24775, 63351, 1159, 7179, 31532, 60639, 11809>>,
    <<30182, 30530, 10938, 38878, 3064, 29963, 53669, 7716, 18708, 36223>>,
    <<20504, 39552, 57250, 17559, 40842, 6691, 62661, 64605, 20891, 1295>>,
    <<26706, 65394, 15413, 5573, 64782, 39981, 1567, 21136, 10655, 53000>>,
    <<34265, 28494, 1132, 39011, 40023, 56299, 23568, 39038, 59075, 39398>>,
    <<14526, 23156, 40491, 31495, 23774, 20206, 51748, 54899, 34287, 12802>>,
    <<38830, 23533, 51207, 59976, 10011, 62424, 24182, 4869, 22092, 41617>>,
    <<26870, 65105, 25799, 39238, 29939, 8361, 58911, 18040, 23120, 45376>>,
    <<17573, 46055, 1990, 21986, 14899, 509, 30821, 33779, 7540, 22131>>,
    <<11701, 58763, 58416, 34758, 3866, 51211, 23456, 5783, 26169, 59758>>,
    <<9269, 37386, 36406, 19093, 48891, 3235, 11346, 43806, 24820, 58564>>,
    <<12408, 27125, 50164, 57575, 60357, 7526, 12607, 31276, 4725, 59049>>,
    <<55643, 59684, 62306, 38267, 63673, 10330, 6884, 61635, 49108, 39163>>,
    <<26144, 34996, 48961, 56785, 37839, 22395, 17454, 53757, 3239, 62611>>,
    <<55674, 49223, 41505, 9726, 59956, 47562, 62585, 33258, 60206, 58992>>,
    <<60754, 44076, 27137, 45732, 43195, 56110, 35420, 49414, 20684, 19354>>,
    <<24754, 34203, 33948, 50366, 10142, 16169, 30312, 64525, 54806, 40260>>,
    <<52927, 40869, 9734, 22357, 59707, 62863, 42206, 43884, 1164, 19408>>,
    <<36183, 25196, 48906, 5314, 41523, 54549, 14387, 52818, 54332, 44187>>,
    <<4708, 29648, 31297, 60062, 61248, 28856, 29433, 3488, 25033, 34816>>,
    <<19190, 27061, 8670, 62965, 49548, 41725, 4363, 9901, 16379, 56771>>,
    <<39089, 32877, 63618, 35072, 1340, 2252, 27236, 21729, 26792, 15812>>,
    <<8800, 1928, 20857, 37520, 15805, 41211, 17319, 53185, 39244, 15635>>,
    <<6943, 20558, 36266, 20859, 63254, 58094, 56167, 16915, 55141, 26438>>,
    <<30383, 52428, 14002, 12583, 36942, 25306, 15014, 52156, 60561, 18472>>,
    <<52466, 59636, 52301, 47770, 52892, 26694, 64069, 63459, 6148, 3254>>,
    <<12739, 36180, 59290, 25543, 51674, 26408, 11494, 11437, 13802, 58386>>,
    <<40321, 20829, 39987, 46232, 3372, 62662, 1482, 53811, 6879, 46106>>,
    <<34918, 11891, 1690, 3861, 13354, 9527, 23604, 3170, 61971, 26430>>,
    <<53373, 60122, 14565, 35206, 6655, 53678, 32902, 29934, 42651, 24766>>,
    <<9228, 12328, 60940, 18007, 6868, 9660, 40939, 12508, 44916, 27399>>,
    <<63956, 64132, 48894, 57095, 51656, 60861, 25841, 46991, 4508, 53522>>,
    <<986, 52942, 8374, 45597, 58556, 33265, 17220, 18599, 31452, 58053>>,
    <<19053, 2431, 42611, 22349, 39697, 31921, 31086, 45778, 19203, 17756>>,
    <<19244, 16194, 39201, 1114, 8118, 44334, 24579, 26294, 49007, 55959>>,
    <<44689, 40476, 40601, 52031, 4, 36362, 35924, 31890, 4666, 18430>>,
    <<31734, 49659, 3501, 63515, 17317, 41574, 3721, 18966, 36680, 4338>>,
    <<39877, 14549, 42470, 8594, 21719, 10906, 36879, 43837, 41559, 6256>>,
    <<31860, 45222, 61259, 22638, 53751, 44985, 33644, 56914, 15528, 33694>>,
    <<30171, 40841, 14806, 44931, 8155, 17722, 22170, 53374, 64492, 40617>>,
    <<20768, 7107, 21070, 7011, 48799, 36356, 48354, 59579, 8757, 18811>>,
    <<27642, 61561, 60382, 40745, 2040, 38206, 41891, 36732, 34206, 42341>>,
    <<40429, 65413, 51101, 18916, 44104, 21118, 25835, 14497, 56386, 45473>>,
    <<14440, 58888, 44768, 13606, 55250, 10952, 41335, 14350, 30702, 17431>>,
    <<49662, 62052, 36507, 8557, 34878, 11027, 28030, 12501, 1389, 9192>>,
    <<64773, 30918, 41956, 52866, 50605, 18044, 5078, 26436, 22223, 57937>>,
    <<23999, 47530, 47478, 24828, 60813, 42757, 11316, 34489, 7509, 57473>>,
    <<44837, 43431, 32743, 42727, 57416, 55682, 7914, 41255, 32474, 41808>>,
    <<35661, 54402, 5541, 13351, 53406, 11937, 16978, 26103, 55513, 31758>>,
    <<6500, 56427, 38985, 5739, 26030, 55287, 27874, 8547, 14404, 13817>>,
    <<51526, 6391, 7698, 47947, 33945, 8745, 59006, 52624, 47109, 43193>>,
    <<15116, 53797, 56848, 46943, 33039, 1218, 63195, 43941, 65045, 18434>>,
    <<64076, 62589, 33320, 57393, 52028, 55777, 55317, 63042, 35770, 63736>>,
    <<32984, 22860, 60351, 44852, 35787, 55029, 4586, 24816, 37686, 18432>>,
    <<55091, 25180, 16476, 6079, 38954, 47703, 40578, 3133, 3879, 21856>>,
    <<21204, 65079, 40811, 63106, 5143, 7496, 65189, 43900, 41652, 48666>>,
    <<9985, 27772, 34776, 33658, 57447, 37922, 28680, 47129, 1594, 48607>>,
    <<19442, 57576, 18010, 50927, 32013, 46656, 38252, 51045, 33917, 2874>>,
    <<10087, 24143, 30147, 32313, 2161, 41886, 28531, 44620, 43703, 40063>>,
    <<15228, 46239, 48145, 15477, 27577, 7437, 63975, 16665, 54223, 4069>>,
    <<43366, 40022, 7752, 6102, 21317, 28201, 15426, 57475, 51478, 24454>>,
    <<14932, 49184, 60931, 7806, 45142, 42606, 1169, 55463, 62006, 27491>>,
    <<24114, 41711, 51401, 64243, 33101, 870, 24800, 52343, 51818, 35280>>,
    <<29364, 62622, 35868, 30318, 21313, 14880, 6592, 2156, 61560, 56881>>,
    <<16428, 11541, 29294, 22847, 53754, 30049, 21983, 56501, 65316, 43624>>,
    <<36993, 21277, 38652, 19383, 34776, 61549, 54092, 65318, 5524, 21870>>,
    <<31888, 8031, 54913, 50734, 36423, 20589, 5433, 60688, 38250, 37580>>,
    <<9526, 53501, 52703, 6522, 59292, 48846, 39751, 9741, 44238, 2473>>,
    <<7122, 6580, 56267, 35293, 21517, 27619, 41692, 2562, 9807, 22535>>,
    <<5122, 63589, 9750, 42472, 26754, 42384, 43784, 17342, 25446, 6821>>,
    <<12966, 55668, 49917, 23501, 2001, 42443, 30172, 10109, 7077, 28522>>,
    <<21693, 3431, 1795, 43111, 31042, 7397, 19494, 29870, 11867, 63365>>,
    <<42965, 43073, 50417, 31540, 6242, 14033, 4929, 24071, 16505, 36413>>,
    <<55891, 19727, 35430, 59268, 18260, 3156, 46301, 61424, 62790, 35198>>,
    <<33958, 7059, 21212, 37888, 37021, 40231, 58206, 19686, 48530, 21699>>,
    <<7960, 61232, 20965, 31779, 43564, 45557, 54502, 23971, 33489, 18610>>,
    <<9846, 23016, 56177, 10359, 19938, 36243, 63052, 50512, 18950, 26592>>,
    <<45411, 31705, 10325, 13360, 52211, 10410, 12972, 42507, 40254, 6343>>,
    <<8223, 23357, 63722, 35774, 12770, 50140, 31303, 61080, 49056, 22350>>,
    <<50960, 11637, 60064, 29082, 17670, 28329, 18396, 32077, 46792, 17931>>,
    <<58993, 55625, 32890, 45336, 5885, 59018, 63853, 11873, 46326, 17709>>,
    <<5866, 45499, 17536, 21624, 61887, 34628, 26147, 59486, 64975, 59312>>,
    <<15792, 11097, 61006, 19710, 25760, 49196, 62804, 46070, 62726, 54065>>,
    <<47357, 21009, 45686, 24800, 49923, 41174, 5869, 21111, 3996, 4665>>,
    <<30741, 52659, 63204, 27994, 41420, 1719, 12857, 59899, 39730, 9559>>,
    <<42302, 61232, 18098, 57621, 52329, 1805, 45351, 2118, 31247, 13205>>,
    <<33358, 9341, 33264, 43665, 30713, 40361, 31710, 57251, 36309, 22376>>,
    <<50146, 25796, 55995, 50288, 15432, 62714, 9492, 41382, 10109, 38884>>,
    <<18142, 43229, 35614, 18182, 3428, 41388, 15471, 12361, 4343, 10702>>,
    <<3702, 52312, 37399, 1024, 10504, 11955, 54185, 1749, 25089, 29129>>,
    <<9567, 20995, 2786, 21091, 8188, 34462, 16534, 18111, 46712, 26642>>,
    <<32439, 4343, 28181, 44339, 29344, 422, 49942, 31873, 57379, 24849>>,
    <<65084, 24923, 62261, 58062, 61313, 47959, 4274, 31604, 64121, 27995>>,
    <<9399, 60019, 49697, 13806, 6321, 52661, 6744, 5659, 50699, 4280>>,
    <<48824, 4644, 20181, 57840, 10109, 14913, 19947, 3104, 33421, 45375>>,
    <<14048, 36967, 60170, 35954, 49959, 41607, 14559, 7447, 55556, 15578>>,
    <<65369, 46915, 63024, 40113, 43215, 13874, 49305, 45709, 14174, 50786>>,
    <<28990, 18972, 27070, 16583, 40796, 27932, 19614, 27063, 39019, 52510>>,
    <<40164, 63724, 59853, 59461, 45676, 20834, 34149, 23069, 47715, 42951>>,
    <<4234, 23615, 39970, 19120, 46158, 2880, 28346, 8488, 44444, 513>>,
    <<59491, 46523, 58837, 14796, 60918, 48344, 41960, 61843, 10330, 49355>>,
    <<19626, 13809, 43717, 55403, 47547, 50347, 17773, 3897, 29997, 54882>>,
    <<23709, 38040, 28335, 41723, 33336, 10199, 39535, 8186, 42079, 16737>>,
    <<9720, 819, 3376, 5320, 20152, 41043, 40593, 48407, 61428, 21057>>,
    <<43691, 55180, 62797, 45316, 6427, 1669, 60773, 19176, 60897, 41772>>,
    <<13232, 55907, 2025, 54138, 29366, 56997, 56605, 26156, 25075, 53560>>,
    <<4970, 9696, 37154, 21666, 38086, 17282, 51473, 33601, 63894, 28149>>,
    <<61122, 2074, 46123, 434, 22692, 53343, 36636, 42557, 54727, 37288>>,
    <<971, 22194, 24268, 20780, 48463, 21798, 31183, 33870, 1246, 34870>>,
    <<63720, 57194, 4253, 49488, 45296, 5755, 22636, 50298, 21565, 59534>>,
    <<35359, 28930, 45242, 62317, 75, 27319, 31226, 44906, 24363, 39190>>,
    <<24005, 44214, 10881, 55602, 64487, 49769, 48192, 29381, 13560, 31522>>,
    <<539, 54347, 2169, 44022, 12112, 29575, 57801, 271, 24363, 46074>>,
    <<53983, 5740, 49350, 47986, 45820, 52465, 16325, 45948, 25904, 54465>>,
    <<50281, 64267, 25056, 58747, 35940, 42188, 38513, 45306, 15647, 53447>>,
    <<2344, 52218, 57643, 45993, 24176, 31921, 26433, 29496, 34955, 15579>>,
    <<55751, 63993, 49791, 16883, 7246, 55845, 28079, 21275, 38268, 21785>>,
    <<13572, 46588, 58877, 9409, 3329, 7464, 24353, 60437, 6874, 30161>>,
    <<38295, 26407, 36082, 18464, 25975, 33892, 30525, 58148, 50186, 64383>>,
    <<22066, 10304, 35282, 46399, 30183, 17472, 1577, 13265, 43839, 5343>>,
    <<64078, 10082, 27878, 52402, 61711, 32690, 21841, 19042, 63233, 39979>>,
    <<46814, 50418, 49811, 5118, 12047, 28666, 61238, 41786, 43060, 58918>>,
    <<23701, 32806, 59232, 35519, 30239, 39440, 36561, 17628, 9062, 49679>>,
    <<59478, 63022, 38799, 45932, 6197, 24311, 39305, 18370, 62994, 22419>>,
    <<17721, 31573, 27636, 1446, 30055, 49595, 51988, 36285, 38506, 47756>>,
    <<29172, 20339, 19512, 1256, 22670, 10781, 18485, 30059, 23002, 60281>>,
    <<55178, 43992, 56032, 47614, 2281, 28206, 37687, 31998, 20241, 24358>>,
    <<17577, 51629, 49612, 4737, 50226, 24753, 35600, 945, 54382, 64134>>,
    <<8607, 32611, 61672, 18391, 65167, 63876, 55930, 468, 57355, 42258>>,
    <<2596, 35971, 42008, 20693, 54088, 41345, 52110, 56753, 32312, 62449>>,
    <<41948, 41039, 17555, 14618, 4265, 12391, 10223, 37416, 48166, 13205>>,
    <<65131, 6730, 10351, 3106, 52595, 10414, 47930, 54718, 17844, 15839>>,
    <<61944, 50486, 56880, 45107, 30285, 64888, 23103, 760, 22527, 7395>>,
    <<19055, 26084, 37179, 46347, 20036, 44384, 387, 43918, 22347, 65374>>,
    <<13166, 13404, 5935, 8712, 42673, 13980, 17575, 52391, 37082, 27108>>,
    <<41567, 46835, 55122, 8068, 22905, 9553, 26897, 49463, 1535, 52884>>,
    <<18868, 19455, 31618, 54233, 53359, 50872, 33122, 16081, 17291, 15665>>,
    <<26920, 23655, 48132, 8403, 29714, 49645, 18360, 39521, 27328, 21806>>,
    <<32801, 39436, 50258, 35762, 64718, 59800, 53676, 56338, 35262, 51218>>,
    <<51510, 16401, 4858, 38897, 40405, 30264, 29121, 61332, 58297, 50889>>,
    <<9789, 48763, 47278, 39902, 10277, 64486, 62428, 30435, 3224, 65013>>,
    <<60591, 1905, 2799, 41679, 49700, 28853, 61833, 3748, 60920, 24366>>,
    <<5792, 53358, 1787, 42390, 29398, 28675, 40392, 9342, 19800, 34884>>,
    <<42898, 6129, 14165, 41307, 27129, 192, 6224, 20287, 31472, 13195>>,
    <<4536, 11324, 36980, 16320, 38808, 44316, 23958, 64784, 6681, 40325>>,
    <<22253, 10716, 32281, 4298, 15950, 9268, 794, 44496, 61131, 952>>,
    <<38643, 58015, 18998, 45285, 41937, 49209, 59810, 59569, 29876, 7822>>,
    <<35161, 8871, 37285, 41325, 45386, 32065, 10103, 46762, 31892, 18894>>,
    <<59583, 35437, 19431, 16601, 50516, 21955, 48317, 28212, 22739, 39425>>,
    <<45054, 56637, 9551, 25035, 58997, 5158, 25090, 2543, 13033, 6688>>,
    <<29743, 35538, 6204, 53958, 27603, 46503, 47414, 27918, 39042, 2861>>,
    <<38655, 40807, 16932, 60720, 36292, 30273, 49917, 6670, 31945, 51369>>,
    <<41746, 1585, 12129, 23, 48814, 49463, 31866, 39721, 42621, 28163>>,
    <<2606, 17230, 6388, 56892, 40645, 52779, 53873, 21387, 54884, 59943>>,
    <<11472, 29675, 61383, 16881, 54106, 18554, 60544, 6394, 61304, 3461>>,
    <<32212, 11504, 26998, 65428, 24048, 54397, 27858, 61831, 7950, 34347>>,
    <<46132, 53771, 13970, 316, 37962, 8059, 7283, 47588, 64243, 32594>>,
    <<60445, 29390, 8380, 1029, 14423, 5908, 15886, 59405, 55926, 47251>>,
    <<10093, 8323, 1996, 21007, 21160, 22638, 24119, 45779, 32569, 2644>>,
    <<24369, 14813, 33212, 4805, 37353, 40905, 38130, 54803, 3934, 61444>>,
    <<16633, 16635, 48306, 28751, 46528, 10001, 9016, 34251, 20484, 4785>>,
    <<59399, 15609, 65062, 25251, 17093, 49598, 52880, 46576, 12998, 25268>>,
    <<11820, 64465, 39789, 18147, 46689, 11131, 19564, 21646, 32134, 26121>>,
    <<49471, 50042, 30635, 33843, 44060, 7868, 32966, 15110, 59364, 59072>>,
    <<28545, 46133, 31886, 60744, 39633, 16933, 49759, 19755, 50692, 20520>>,
    <<15668, 35737, 32870, 56186, 39233, 38289, 34929, 46883, 17418, 30172>>,
    <<62422, 2557, 63657, 30278, 20200, 723, 6781, 29365, 9982, 19707>>,
    <<52147, 6, 61221, 23856, 25407, 40558, 56675, 25411, 17414, 2234>>,
    <<64797, 3706, 40797, 45277, 62970, 46434, 42389, 61408, 5059, 2155>>,
    <<28542, 39961, 18935, 28214, 59166, 7139, 30982, 1982, 47708, 26139>>,
    <<48933, 29363, 4804, 16876, 64854, 43408, 50343, 50299, 17659, 34083>>,
    <<39278, 38553, 55034, 730, 1193, 44464, 55954, 41126, 50480, 32350>>,
    <<45316, 20166, 13759, 62775, 24631, 29618, 2537, 42701, 47338, 30185>>,
    <<43203, 5021, 11132, 64823, 13555, 23220, 58776, 37641, 41107, 36552>>,
    <<39504, 32675, 27492, 16589, 441, 3206, 30251, 38577, 768, 27147>>,
    <<16177, 27687, 21777, 24448, 50090, 11597, 42328, 6134, 159, 2818>>,
    <<6095, 29876, 34948, 15755, 6282, 4888, 20508, 1679, 41995, 11293>>,
    <<23793, 3663, 44042, 33143, 57527, 5215, 49278, 31422, 58420, 11098>>,
    <<27740, 25825, 43764, 21208, 10885, 24158, 30880, 16698, 59642, 31582>>,
    <<3103, 58940, 9349, 4318, 10355, 26222, 46236, 62631, 47628, 26640>>,
    <<22960, 7724, 17248, 9073, 51950, 48801, 22306, 32014, 4996, 12905>>,
    <<29114, 64975, 24680, 43975, 32890, 16104, 36377, 4972, 7950, 4018>>,
    <<4676, 64654, 2732, 6046, 16491, 2876, 16612, 48317, 5178, 24415>>,
    <<28499, 9954, 12516, 60968, 55664, 40107, 52730, 63245, 49753, 50539>>,
    <<39785, 64801, 52009, 3456, 24993, 46776, 53767, 17650, 5591, 20402>>,
    <<63339, 61479, 57670, 3364, 21937, 5291, 33544, 62375, 39547, 47795>>,
    <<21463, 51337, 742, 3841, 30446, 18713, 53094, 49154, 16767, 55484>>,
    <<61844, 51808, 31291, 16873, 40519, 25975, 12931, 44498, 47745, 52799>>,
    <<29590, 1929, 64341, 8556, 64147, 44880, 19553, 40960, 16413, 55413>>,
    <<3933, 36530, 30148, 22990, 14704, 21830, 65337, 60182, 28913, 4526>>,
    <<14163, 42495, 31421, 16423, 20150, 21060, 17726, 60887, 47659, 50235>>,
    <<15695, 51538, 32143, 24466, 35078, 27616, 44348, 1137, 16267, 13307>>,
    <<28358, 47758, 30183, 50444, 57147, 65406, 46986, 55794, 35596, 16004>>,
    <<15633, 23133, 42000, 58097, 23129, 57131, 3528, 24932, 52677, 56565>>,
    <<50350, 20151, 21067, 37512, 55267, 27875, 27631, 36420, 18330, 9878>>,
    <<13171, 53761, 17100, 56396, 20329, 13413, 65082, 22986, 13290, 64714>>,
    <<25872, 5303, 30718, 28034, 63158, 19968, 11775, 54976, 8468, 33135>>,
    <<31449, 103, 19348, 28572, 56127, 55965, 26976, 44286, 34610, 19237>>,
    <<1764, 1118, 49833, 21842, 33136, 60909, 11879, 46817, 52996, 21608>>,
    <<37101, 11674, 48411, 20104, 53158, 30767, 21135, 55001, 5406, 17467>>,
    <<40910, 25056, 29138, 488, 43224, 60697, 5525, 29333, 52910, 49764>>,
    <<25247, 16464, 40633, 24439, 48410, 26306, 65396, 1477, 26440, 49463>>,
    <<5528, 51481, 16963, 58657, 31371, 26954, 31779, 40955, 46861, 47619>>,
    <<1956, 45959, 18318, 26263, 24594, 61544, 22106, 21628, 47321, 27799>>,
    <<65090, 54426, 49687, 11242, 19876, 9622, 19178, 41129, 13027, 40430>>,
    <<10113, 38230, 61277, 15703, 54528, 65305, 28049, 53423, 48958, 21304>>,
    <<65280, 54009, 39989, 28888, 54396, 11725, 23403, 22239, 49111, 20694>>,
    <<15794, 49679, 57897, 16017, 27404, 1683, 9643, 5020, 55341, 42049>>,
    <<41856, 36133, 3853, 7546, 49305, 1802, 8808, 15089, 15174, 64797>>,
    <<36950, 16245, 39284, 23875, 61558, 7593, 24511, 55050, 17418, 2823>>,
    <<35188, 60545, 2245, 39189, 43897, 58050, 4632, 53941, 31815, 17589>>,
    <<38608, 43463, 1886, 11524, 725, 1871, 9257, 37413, 16047, 23203>>,
    <<28890, 20203, 45123, 17056, 4784, 10974, 49936, 60207, 8337, 62806>>,
    <<16554, 53852, 15476, 32302, 5807, 37846, 10198, 54664, 62619, 37543>>,
    <<29511, 30778, 17332, 36698, 1384, 57870, 23926, 17116, 62249, 53948>>,
    <<59172, 28255, 33617, 139, 47542, 32963, 40742, 21811, 30846, 9611>>,
    <<50322, 58644, 24649, 32626, 12612, 22882, 5858, 52106, 63002, 27079>>,
    <<44408, 49791, 30755, 32278, 14558, 9217, 5978, 41449, 59242, 51367>>,
    <<25273, 61309, 18685, 28721, 19214, 49945, 36350, 63125, 7032, 27730>>,
    <<48158, 14306, 55236, 35369, 41895, 4216, 12529, 9395, 19869, 40830>>,
    <<3185, 41416, 25795, 9913, 10942, 9209, 6715, 63675, 9383, 14243>>,
    <<41550, 1265, 15558, 2238, 19597, 58233, 64205, 48866, 61171, 25531>>,
    <<64463, 32350, 39816, 33087, 38271, 14150, 47029, 51062, 62384, 35675>>,
    <<47373, 34395, 46714, 44244, 9608, 32233, 51998, 7786, 11576, 25902>>,
    <<40064, 15452, 11294, 30262, 29846, 322, 54792, 49095, 12992, 13622>>,
    <<60334, 2060, 61880, 30020, 45205, 53793, 52483, 16248, 26554, 2040>>,
    <<38919, 46282, 49910, 51271, 55510, 4924, 51643, 10955, 28442, 8669>>,
    <<1261, 25014, 57648, 4733, 14492, 16702, 23488, 59854, 18571, 38880>>,
    <<51054, 11250, 11497, 18166, 24745, 55643, 40324, 25047, 45031, 39914>>,
    <<13444, 27597, 31931, 38785, 20656, 33429, 56406, 49328, 28565, 29395>>,
    <<13281, 43016, 53537, 27182, 33345, 54990, 30521, 21347, 37148, 64487>>,
    <<42556, 4977, 3754, 7636, 4961, 23812, 14377, 45818, 54726, 64838>>,
    <<55986, 51922, 25405, 42280, 48976, 63873, 60980, 33695, 42000, 23113>>,
    <<55716, 54325, 61645, 16302, 11827, 44128, 32369, 65208, 48258, 28034>>,
    <<64358, 10320, 56346, 4611, 60499, 34372, 14131, 23104, 14619, 5084>>,
    <<18669, 17168, 56855, 35590, 28902, 36644, 5640, 47605, 24044, 53117>>,
    <<37095, 13397, 16440, 5371, 16211, 22831, 48259, 23984, 23078, 9692>>,
    <<28124, 13666, 55587, 30713, 11201, 31671, 52470, 60831, 6384, 65352>>,
    <<20789, 4733, 12235, 19248, 14291, 26625, 48338, 25028, 30703, 43549>>,
    <<42704, 28965, 12110, 51317, 23072, 1586, 48485, 28275, 27228, 33101>>,
    <<32227, 45806, 24328, 23302, 38107, 38470, 47896, 12268, 12859, 42084>>,
    <<39666, 3026, 33434, 7959, 36158, 12849, 58259, 64419, 11209, 14742>>,
    <<37155, 54488, 50892, 57892, 18287, 6814, 30626, 42880, 889, 57770>>,
    <<31812, 7191, 45576, 32231, 32128, 7115, 2400, 59051, 33462, 28343>>,
    <<20900, 59910, 30942, 61438, 18345, 17162, 8306, 33242, 56153, 19365>>,
    <<5584, 40695, 10811, 17658, 58664, 1419, 29919, 26990, 57914, 9443>>,
    <<41860, 61773, 63812, 55260, 64019, 60440, 40380, 8087, 62203, 29167>>,
    <<27265, 38641, 25317, 2641, 27279, 2932, 21366, 20711, 45656, 4662>>,
    <<61796, 34513, 50722, 7682, 5076, 53967, 62507, 44784, 58990, 28458>>,
    <<956, 54812, 61047, 55222, 46688, 45821, 33437, 33673, 41782, 40817>>,
    <<64685, 32457, 51250, 63245, 22626, 41317, 48867, 30663, 5256, 940>>,
    <<56349, 32459, 41489, 47924, 19698, 61596, 42186, 56940, 14708, 2096>>,
    <<53718, 33457, 9716, 40772, 59816, 31038, 29764, 29225, 29689, 29161>>,
    <<22911, 7472, 40148, 45460, 62649, 37499, 32176, 35275, 3143, 47334>>,
    <<58431, 14712, 25221, 37370, 59628, 59398, 20319, 34643, 2303, 43384>>,
    <<53793, 53154, 13581, 20402, 30361, 32611, 52138, 16509, 65474, 51947>>,
    <<25366, 4068, 20905, 53654, 22155, 38967, 43302, 53933, 29378, 54800>>,
    <<16258, 34298, 41949, 65448, 29241, 47748, 49128, 11192, 42221, 51886>>,
    <<29854, 23238, 39330, 36406, 61053, 64940, 11717, 1390, 44195, 22393>>,
    <<7653, 47619, 33678, 63471, 32299, 51143, 31626, 18587, 25739, 45551>>,
    <<61919, 35938, 28449, 26889, 31697, 43539, 59108, 49127, 47438, 23212>>,
    <<2202, 47447, 35292, 28930, 3431, 13317, 52224, 11276, 38564, 4091>>,
    <<46726, 1945, 24840, 42941, 61436, 55094, 11157, 50090, 17600, 20947>>,
    <<12300, 53036, 39540, 7385, 16489, 47194, 41762, 43348, 39980, 16160>>,
    <<14896, 11375, 38699, 16286, 37687, 62437, 13517, 23849, 53359, 62386>>,
    <<5682, 8337, 21006, 2354, 47604, 1497, 43306, 7068, 49421, 8771>>,
    <<22263, 50209, 13033, 50637, 14534, 17746, 24181, 36235, 45616, 35500>>,
    <<22822, 54211, 60056, 3341, 13637, 29577, 29117, 62085, 35912, 39137>>,
    <<8520, 10887, 60084, 35278, 9081, 15073, 61876, 60933, 20443, 3890>>,
    <<62546, 9721, 61817, 11374, 12457, 53779, 28572, 5463, 57820, 49015>>,
    <<49514, 8098, 19874, 65340, 4345, 44686, 48517, 38585, 47943, 22449>>,
    <<54532, 64368, 9846, 54237, 33129, 7052, 22981, 55881, 64641, 2161>>,
    <<51712, 8180, 64716, 50049, 63927, 39051, 16989, 32287, 895, 13619>>,
    <<46526, 30523, 13752, 29599, 57060, 44666, 24725, 61885, 6087, 10624>>,
    <<33231, 36849, 62807, 58877, 57996, 57448, 50355, 14665, 30353, 58822>>,
    <<40832, 50762, 859, 30084, 29660, 46066, 15167, 31332, 39007, 33310>>,
    <<6980, 64606, 30859, 17205, 60350, 35073, 34228, 64319, 3186, 43348>>,
    <<55343, 500, 1081, 34264, 7728, 65314, 20502, 2329, 35002, 59563>>,
    <<22479, 55055, 38314, 31939, 52667, 32180, 39012, 12795, 40642, 12085>>,
    <<6142, 22627, 41397, 38605, 51038, 7082, 13162, 63772, 8626, 28595>>,
    <<46864, 38554, 31531, 64489, 22945, 39835, 53300, 4290, 7166, 43648>>,
    <<25230, 28663, 8484, 57845, 868, 43560, 43291, 28611, 11144, 29445>>,
    <<41790, 56450, 55149, 46293, 39335, 314, 32524, 45444, 45712, 45512>>,
    <<35632, 7967, 49925, 38329, 11140, 64671, 47118, 50387, 25252, 7541>>,
    <<25563, 43713, 20597, 31815, 45464, 59265, 30058, 42888, 40030, 64325>>,
    <<44568, 57229, 44225, 34257, 48018, 32202, 12754, 44078, 44917, 62979>>,
    <<20287, 51326, 4908, 48304, 65138, 24596, 38862, 153, 42943, 13964>>,
    <<46617, 20335, 59009, 58489, 59451, 34418, 23481, 44869, 30521, 47745>>,
    <<40796, 22354, 11439, 9785, 15962, 9005, 52203, 35635, 23770, 31182>>,
    <<18223, 46558, 56209, 22296, 48891, 46909, 33047, 28623, 1720, 21488>>,
    <<15472, 23706, 24919, 28811, 29017, 32270, 45253, 57504, 46378, 39786>>,
    <<1076, 58935, 51435, 9570, 64751, 23167, 52917, 22207, 6110, 25359>>,
    <<51369, 50756, 17844, 39398, 44905, 28397, 18548, 22212, 60218, 57588>>,
    <<5621, 52570, 15766, 44742, 48922, 50342, 59218, 3987, 5276, 61118>>,
    <<30233, 62511, 907, 14620, 64414, 7428, 64574, 47792, 2546, 24326>>,
    <<5097, 7347, 43096, 59113, 40794, 52103, 59833, 2379, 42668, 2935>>,
    <<9814, 51991, 5708, 23947, 50054, 42765, 31702, 62566, 25366, 15522>>,
    <<5514, 15367, 52164, 62483, 12969, 25773, 62644, 31570, 60167, 16169>>,
    <<49960, 30843, 13989, 29842, 8797, 36904, 14725, 47794, 28432, 56947>>,
    <<57104, 709, 54213, 53464, 25770, 36923, 10425, 38957, 380, 57618>>,
    <<54191, 38503, 38914, 34008, 28029, 52400, 22713, 29278, 42652, 27789>>,
    <<13413, 5194, 41250, 1626, 59476, 57943, 46349, 7289, 51332, 62423>>,
    <<55795, 4007, 45511, 15192, 52060, 37806, 53937, 28602, 20324, 43276>>,
    <<51365, 19493, 64082, 11074, 30507, 24937, 6728, 32459, 61491, 30601>>,
    <<62044, 60848, 21095, 23046, 39773, 59627, 10101, 8556, 6097, 38297>>,
    <<51409, 14045, 34390, 1748, 61350, 31533, 56028, 7520, 14108, 46211>>,
    <<52608, 14096, 16956, 3832, 17459, 46718, 47297, 47, 52016, 3640>>,
    <<39780, 36409, 2635, 2152, 49564, 50036, 34314, 62746, 19719, 47724>>,
    <<49459, 50527, 19217, 7552, 9093, 36644, 10655, 8030, 35006, 24443>>,
    <<18034, 30253, 60004, 64497, 26991, 37301, 60339, 1961, 2778, 22305>>,
    <<59529, 21073, 39283, 30193, 8699, 58581, 58535, 42701, 59307, 20200>>,
    <<63096, 56913, 11101, 51793, 27883, 5609, 41686, 32649, 16092, 43947>>,
    <<26755, 36331, 41244, 59520, 4333, 12331, 3754, 44347, 10732, 48517>>,
    <<27307, 46033, 54209, 3140, 16025, 8145, 23796, 52190, 45946, 7930>>,
    <<35398, 22006, 49188, 43581, 25828, 45905, 26271, 14813, 3905, 5784>>,
    <<58342, 27017, 31168, 18813, 29836, 9698, 25402, 20665, 3668, 20467>>,
    <<60594, 35397, 19972, 22023, 40067, 17040, 58911, 24090, 42452, 48448>>,
    <<54746, 34656, 54799, 14213, 59685, 57902, 17891, 34260, 43969, 23920>>,
    <<27864, 20933, 7583, 12309, 322, 48666, 28104, 22623, 48293, 64025>>,
    <<48005, 34407, 16480, 16196, 60329, 1696, 60401, 52268, 64972, 62768>>,
    <<31016, 39467, 12885, 50423, 52227, 39226, 118, 39174, 53972, 34646>>,
    <<25781, 38490, 1978, 62634, 43470, 30550, 7484, 40197, 40423, 42753>>,
    <<38315, 5920, 16639, 49185, 37104, 32831, 14467, 21849, 64758, 15060>>,
    <<23276, 56275, 13154, 1368, 18217, 35711, 5091, 53499, 23410, 43513>>,
    <<59873, 19141, 22988, 3584, 34743, 57280, 32758, 38735, 44014, 529>>,
    <<46761, 18160, 22727, 30713, 35661, 13933, 6540, 38536, 54529, 26663>>,
    <<30592, 4299, 3114, 64468, 2160, 29209, 18419, 28421, 29165, 31620>>,
    <<62334, 54944, 57729, 2919, 46161, 44026, 28000, 35020, 26577, 55580>>,
    <<43212, 43223, 23663, 33623, 61829, 38899, 5465, 42439, 30765, 11572>>,
    <<39579, 62797, 47499, 9878, 52358, 33505, 9388, 44458, 29634, 62273>>,
    <<41556, 9807, 3820, 38519, 43533, 43924, 50281, 28681, 16022, 1685>>,
    <<2647, 43098, 62601, 9770, 32190, 19421, 34440, 42030, 29250, 12066>>,
    <<26730, 62779, 24713, 41959, 60661, 19934, 26187, 59830, 19873, 27827>>,
    <<54063, 16179, 31134, 37402, 31546, 5814, 52867, 57947, 1062, 33776>>,
    <<2665, 11171, 62426, 8941, 50975, 14493, 16291, 36069, 28710, 24453>>,
    <<6359, 40978, 27765, 5607, 466, 31215, 23892, 58664, 40948, 9571>>,
    <<9363, 4609, 31122, 54888, 47694, 26187, 50270, 61449, 56103, 29503>>,
    <<61326, 64408, 26523, 49288, 12985, 8308, 34383, 15343, 63828, 50759>>,
    <<49132, 24012, 51892, 22908, 10227, 53469, 50178, 19724, 18505, 35117>>,
    <<36887, 53190, 10951, 46608, 33368, 40633, 44979, 22824, 13472, 63705>>,
    <<45398, 63720, 46286, 4761, 20598, 26927, 19459, 16621, 39067, 20481>>,
    <<56565, 26745, 39312, 26608, 9381, 63354, 6447, 61974, 21420, 2635>>,
    <<1474, 38063, 15778, 589, 25571, 4336, 32580, 15722, 58920, 43407>>,
    <<32637, 34926, 37359, 57621, 23441, 2470, 44780, 11834, 39715, 55583>>,
    <<59725, 15083, 55681, 59692, 34701, 20064, 16932, 33418, 4040, 450>>,
    <<43284, 23233, 53929, 56561, 62301, 49228, 36816, 30741, 12529, 31862>>,
    <<44146, 56441, 48256, 41624, 14956, 62879, 56311, 41857, 51472, 48625>>,
    <<33792, 12350, 8158, 13825, 65437, 56770, 36899, 30901, 64754, 26562>>,
    <<52635, 7883, 46431, 34753, 61186, 19712, 17742, 60244, 51988, 55169>>,
    <<61178, 7081, 38233, 13566, 50724, 21023, 21880, 9203, 27924, 59152>>,
    <<1705, 12659, 46145, 8100, 31184, 43046, 26826, 33625, 7294, 1496>>,
    <<56621, 9599, 9416, 16735, 49168, 36785, 16265, 41307, 42456, 39595>>,
    <<14201, 62550, 38624, 16016, 17743, 44432, 32043, 40242, 33218, 48250>>,
    <<56293, 36599, 5894, 55812, 59853, 5920, 56708, 9145, 58387, 32266>>,
    <<64571, 420, 11533, 4185, 28486, 40199, 8536, 3569, 10277, 50616>>,
    <<13899, 21256, 18694, 1189, 60237, 33217, 45855, 21348, 11359, 62864>>,
    <<46597, 62660, 2263, 24179, 60608, 24952, 47163, 23492, 11958, 59104>>,
    <<43677, 46961, 8687, 12978, 15541, 40832, 11426, 48171, 49611, 11847>>,
    <<35811, 26989, 22827, 42751, 35699, 42885, 36322, 49772, 49311, 14764>>,
    <<24842, 6877, 48029, 42657, 63226, 36193, 45723, 4766, 41369, 25513>>,
    <<13779, 61170, 64467, 27331, 41391, 42184, 55150, 58987, 54671, 33762>>,
    <<40287, 45878, 26860, 25777, 12619, 27054, 13425, 2026, 53353, 44588>>,
    <<30487, 2609, 52910, 55804, 56466, 45937, 5427, 52359, 35034, 31121>>,
    <<17405, 47537, 38247, 45327, 39753, 45660, 27570, 31237, 30212, 13477>>,
    <<59206, 62873, 25587, 8497, 49976, 25758, 9927, 27038, 57883, 36312>>,
    <<44412, 21372, 14295, 2262, 40963, 12942, 39434, 20876, 52602, 65513>>,
    <<56112, 48218, 8518, 50913, 56798, 33737, 843, 15536, 61585, 4124>>,
    <<27783, 12341, 44590, 29781, 18245, 45054, 17234, 61982, 6076, 51648>>,
    <<11302, 29717, 24540, 43038, 1369, 6556, 19580, 17607, 32822, 20022>>,
    <<60144, 34957, 53464, 38029, 20108, 59888, 62227, 4196, 63749, 8513>>,
    <<62759, 19166, 45485, 45794, 63932, 64124, 62371, 41458, 8954, 45851>>,
    <<29449, 64682, 63669, 58452, 35206, 31315, 13314, 10757, 7696, 43010>>,
    <<61090, 3899, 53987, 15771, 22653, 23851, 29841, 50433, 13394, 14063>>,
    <<3725, 36219, 3972, 47816, 8219, 37111, 39255, 10168, 55163, 52162>>,
    <<64143, 60982, 6647, 20516, 13917, 50252, 397, 50844, 11057, 24068>>,
    <<41152, 58926, 18572, 26343, 15645, 30531, 18078, 58302, 34713, 36900>>,
    <<3534, 54315, 28977, 51760, 20775, 57227, 61027, 61684, 12177, 6319>>,
    <<11604, 1004, 30596, 14300, 6876, 59448, 17733, 60068, 56250, 19775>>,
    <<30378, 40625, 34558, 48100, 36110, 64026, 38697, 44497, 35014, 34764>>,
    <<22453, 2010, 22477, 45159, 40251, 27626, 49397, 1537, 53643, 24718>>,
    <<51507, 32777, 4338, 10109, 48390, 21879, 32376, 16475, 19091, 60273>>,
    <<56249, 3841, 4032, 11112, 46754, 56186, 53986, 12078, 33264, 25601>>,
    <<34978, 41527, 27449, 22747, 53576, 1045, 62245, 6492, 6883, 10440>>,
    <<11581, 371, 25657, 9387, 54922, 4924, 17724, 1690, 4736, 63457>>,
    <<53604, 57272, 34421, 57075, 32087, 19090, 29491, 7872, 51239, 64167>>,
    <<15207, 18380, 2785, 62950, 9545, 29247, 53652, 62874, 41433, 5892>>,
    <<9853, 19751, 12542, 47652, 50691, 32465, 31970, 36261, 3053, 44990>>,
    <<51437, 59893, 59629, 54940, 47723, 9805, 42450, 20589, 37570, 63741>>,
    <<55576, 49739, 16003, 35520, 30961, 27250, 35775, 65349, 27596, 57723>>,
    <<50923, 15082, 50663, 50796, 31989, 54695, 17628, 16770, 26443, 40190>>,
    <<56796, 2743, 19884, 722, 20522, 13664, 2843, 34464, 57472, 58921>>,
    <<19813, 33155, 55268, 1619, 16341, 16595, 15928, 27024, 59642, 7079>>,
    <<57970, 18865, 6506, 25299, 52379, 37670, 40026, 59739, 30408, 54899>>,
    <<3798, 47792, 51313, 47009, 35492, 1985, 37520, 52752, 4222, 54158>>,
    <<51701, 47930, 29205, 40398, 3156, 37822, 33588, 55637, 13676, 17998>>,
    <<49435, 40437, 10048, 1611, 19746, 27580, 11009, 37236, 32096, 6021>>,
    <<36818, 33155, 14710, 49641, 21561, 25876, 13852, 942, 10881, 14685>>,
    <<55449, 33304, 37437, 44844, 48790, 63037, 15482, 24864, 53249, 26336>>,
    <<5751, 4562, 18174, 26619, 42931, 53385, 46782, 57466, 36820, 52777>>,
    <<51766, 23959, 7086, 39261, 43244, 9115, 40798, 23715, 60057, 20911>>,
    <<60673, 5679, 48265, 19665, 53310, 17838, 19925, 5379, 56518, 51819>>,
    <<18750, 36223, 3097, 30190, 50823, 21269, 60960, 16344, 15363, 64114>>,
    <<7028, 44593, 34112, 47987, 57440, 32435, 25298, 53392, 29874, 48411>>,
    <<41875, 49130, 27767, 14480, 45995, 62238, 4510, 65268, 37485, 38664>>,
    <<58547, 26532, 2310, 37909, 51363, 28324, 22444, 60210, 40737, 54730>>,
    <<5216, 15237, 60763, 48437, 44810, 20887, 46026, 38, 28964, 9205>>,
    <<6039, 32430, 54678, 28825, 29710, 22538, 41428, 40313, 51643, 1448>>,
    <<16319, 14484, 24476, 57139, 33056, 16247, 15750, 55205, 51558, 59951>>,
    <<32480, 50544, 41438, 864, 1496, 22780, 42520, 19514, 59359, 3590>>,
    <<1714, 26459, 55766, 9009, 36881, 28469, 55870, 21096, 47492, 59956>>,
    <<58258, 44351, 47428, 37022, 58936, 62919, 4808, 32988, 38215, 47943>>,
    <<59405, 42755, 43860, 59586, 41931, 13401, 25704, 40395, 23892, 17753>>,
    <<43090, 38754, 58549, 47545, 33226, 15352, 29874, 9624, 50103, 38201>>,
    <<5172, 8712, 22242, 52339, 61731, 18442, 32491, 12796, 6507, 41784>>,
    <<6039, 58706, 43182, 24058, 41285, 15986, 47462, 60808, 17800, 45950>>,
    <<34870, 59884, 10028, 8828, 41697, 1988, 46566, 34594, 52865, 58269>>,
    <<458, 21973, 2214, 14117, 27338, 9018, 2900, 53960, 54139, 24964>>,
    <<122, 13831, 54740, 12779, 34114, 39625, 2164, 47660, 39416, 60665>>,
    <<37110, 37919, 1583, 5722, 19234, 45708, 18787, 3658, 12250, 51531>>,
    <<8458, 2619, 34888, 63534, 11773, 39568, 35461, 44449, 33845, 58340>>,
    <<59553, 18882, 34543, 27687, 40380, 45542, 36219, 16692, 159, 41711>>,
    <<43860, 25946, 6034, 8319, 31124, 35004, 29702, 25575, 58544, 39689>>,
    <<7828, 34518, 61074, 61124, 12794, 18297, 64053, 61814, 35881, 36608>>,
    <<16876, 48107, 62368, 36377, 46380, 47937, 47889, 52763, 2701, 50203>>,
    <<60672, 26729, 15141, 31045, 32511, 12809, 11325, 20743, 21457, 17001>>,
    <<59216, 44676, 24057, 7333, 21222, 55106, 32560, 59680, 59456, 23889>>,
    <<31420, 25803, 58510, 47071, 48291, 32078, 52854, 7335, 5038, 21937>>,
    <<51280, 41587, 5707, 7309, 39746, 45853, 50408, 3183, 22860, 50345>>,
    <<34701, 47447, 50416, 20259, 64780, 46440, 63075, 45948, 43887, 53742>>,
    <<28450, 22691, 46559, 53345, 43665, 32863, 7777, 44631, 60946, 61623>>,
    <<51867, 18385, 6896, 54302, 39114, 37581, 43992, 48381, 28760, 42669>>,
    <<39550, 17717, 48126, 19826, 19181, 39700, 53282, 22181, 14207, 28068>>,
    <<53522, 11563, 54194, 62670, 24376, 31817, 34178, 26038, 41508, 19040>>,
    <<35763, 33619, 31404, 3609, 26170, 34228, 37535, 21392, 19632, 44883>>,
    <<48052, 11431, 51307, 63386, 56622, 14330, 40108, 3736, 14635, 32499>>,
    <<32923, 49679, 61654, 46140, 30931, 58767, 21302, 33700, 33496, 11184>>,
    <<39033, 14356, 1933, 4755, 29792, 16925, 25051, 28042, 13598, 50445>>,
    <<42322, 64671, 16018, 61793, 4718, 50759, 16147, 40989, 2417, 48881>>,
    <<30145, 61353, 63556, 53845, 2990, 61977, 39205, 30645, 8678, 29756>>,
    <<34440, 42531, 48790, 29561, 46786, 13520, 60230, 17531, 60640, 13791>>,
    <<63752, 5174, 56703, 24389, 40888, 39131, 27394, 58598, 5077, 19874>>,
    <<31785, 62435, 41427, 65334, 18261, 36888, 57458, 53588, 53930, 25555>>,
    <<1810, 45064, 60588, 8661, 20975, 47694, 61148, 39904, 49199, 50766>>,
    <<17128, 12898, 26656, 5818, 12422, 36781, 52371, 6041, 39882, 8759>>,
    <<30333, 21209, 58634, 57039, 3652, 61961, 46923, 20800, 35543, 44809>>,
    <<62294, 38167, 11429, 19422, 40200, 1468, 35139, 14248, 65341, 16718>>,
    <<45316, 14232, 32795, 4003, 33812, 45176, 36026, 60318, 12421, 14053>>,
    <<16420, 20007, 64059, 54150, 40093, 58143, 44802, 55313, 64569, 4069>>,
    <<15057, 37519, 45568, 17663, 282, 4771, 29373, 8785, 6083, 57786>>,
    <<14681, 36112, 12265, 22498, 15640, 30669, 44794, 42984, 42843, 24538>>,
    <<52999, 47138, 40413, 29893, 1580, 33482, 11310, 1738, 50347, 26873>>,
    <<26694, 37662, 4347, 39049, 44580, 57353, 31239, 18961, 33222, 34755>>,
    <<50851, 4781, 53821, 41440, 30412, 33063, 51327, 5265, 56440, 24141>>,
    <<29498, 59345, 50203, 6486, 11705, 20370, 62114, 60917, 4985, 50657>>,
    <<12321, 38176, 7625, 10374, 5876, 61266, 63064, 42109, 22124, 2696>>,
    <<13341, 23256, 10487, 19333, 47663, 56391, 46627, 23191, 10318, 14168>>,
    <<20587, 28556, 41226, 4212, 54023, 56233, 58256, 44587, 30994, 19575>>,
    <<34142, 16430, 29019, 3256, 30399, 11345, 61953, 7641, 24108, 52835>>,
    <<6247, 64486, 42132, 7695, 34501, 49738, 20881, 3213, 9817, 5254>>,
    <<58563, 44771, 16116, 31749, 22012, 15089, 8671, 62549, 9907, 47597>>,
    <<40993, 5939, 30214, 4336, 64198, 38829, 52533, 63825, 52332, 33091>>,
    <<20366, 1716, 46652, 35238, 21842, 44286, 24478, 47004, 2656, 353>>,
    <<51274, 63415, 43661, 43249, 29582, 42629, 8746, 22792, 57080, 42127>>,
    <<16661, 9797, 60193, 59682, 8467, 25305, 57661, 44344, 56088, 43729>>,
    <<3221, 64161, 60721, 14715, 59620, 12390, 63652, 27745, 42241, 29143>>,
    <<20866, 64680, 35034, 37249, 64041, 26537, 2816, 24301, 9475, 46141>>,
    <<38636, 26009, 19325, 32242, 46136, 42249, 57991, 60926, 7806, 18039>>,
    <<3858, 29251, 50610, 52093, 50509, 64521, 59299, 7626, 55873, 24294>>,
    <<16688, 60561, 32327, 58589, 45271, 21092, 50447, 60317, 49561, 38803>>,
    <<46285, 22825, 49790, 6468, 55272, 64951, 59121, 61263, 7896, 32562>>,
    <<60893, 41013, 43210, 23137, 45155, 16054, 37386, 64389, 43234, 63701>>,
    <<41289, 2536, 36253, 34286, 29095, 26757, 53655, 57121, 65248, 49070>>,
    <<23052, 17813, 15791, 60935, 40823, 51569, 4778, 62640, 38956, 44679>>,
    <<12370, 40453, 17855, 10708, 61551, 32598, 37216, 41182, 25826, 38590>>,
    <<32313, 29881, 32684, 31520, 38749, 3152, 9829, 42158, 34237, 42285>>,
    <<17343, 34766, 41123, 32013, 23140, 52412, 34907, 60307, 32844, 44322>>,
    <<36195, 10344, 20859, 42083, 43328, 41387, 39242, 14275, 38874, 1876>>,
    <<2934, 59509, 40495, 55839, 34861, 38113, 49190, 51408, 24785, 36441>>,
    <<8118, 13589, 24805, 23708, 7511, 48785, 64380, 20277, 21932, 40846>>,
    <<46997, 25148, 21857, 46946, 62248, 18734, 26522, 4461, 54124, 19719>>,
    <<7086, 43819, 59560, 43514, 53050, 17449, 37245, 44824, 5995, 14808>>,
    <<47670, 23112, 10222, 62598, 4839, 7346, 8646, 49061, 1754, 29329>>,
    <<53559, 13591, 51745, 10646, 59688, 10899, 1711, 57608, 12884, 6309>>,
    <<64392, 64749, 61201, 42740, 20417, 13233, 41905, 60242, 47767, 10534>>,
    <<24504, 30548, 52001, 41229, 63470, 61027, 60785, 44515, 23853, 34697>>,
    <<7475, 11382, 48260, 27365, 27116, 64764, 36758, 7074, 1030, 10392>>,
    <<43751, 22942, 57353, 49829, 41705, 1769, 19030, 44284, 64319, 20525>>,
    <<47725, 22757, 50286, 14220, 28601, 35595, 17020, 40537, 61705, 48386>>,
    <<53329, 58493, 53703, 22553, 29081, 55804, 39107, 18347, 27842, 59021>>,
    <<44136, 57339, 329, 56406, 64432, 64192, 42488, 63341, 29115, 50753>>,
    <<53777, 13519, 44751, 61362, 55038, 25814, 5706, 27388, 23449, 11840>>,
    <<34977, 50403, 49997, 5094, 16726, 14561, 58762, 51667, 63162, 41245>>,
    <<8953, 5731, 24547, 12657, 46396, 40932, 57503, 61873, 11578, 36003>>,
    <<36922, 41863, 47340, 21531, 18710, 13240, 18733, 38051, 19658, 45348>>,
    <<30152, 26450, 9663, 30601, 51074, 14254, 33, 63178, 11219, 28218>>,
    <<4877, 25024, 27156, 26886, 56228, 28552, 57218, 19634, 29425, 60571>>,
    <<25420, 32109, 11988, 35024, 60627, 24343, 1965, 12056, 2482, 14901>>,
    <<11371, 56588, 11195, 60012, 51306, 59732, 55839, 21061, 41215, 19620>>,
    <<55944, 20007, 48526, 65156, 45423, 14104, 46052, 62478, 26131, 19899>>,
    <<48672, 13012, 57878, 6798, 42960, 41360, 44067, 45743, 18396, 41204>>,
    <<51645, 8943, 8014, 2822, 11502, 49491, 60080, 38713, 39502, 62446>>,
    <<41880, 22905, 33590, 37504, 62050, 54674, 32258, 41806, 43422, 6427>>,
    <<29849, 15855, 15505, 11432, 6915, 13312, 58408, 33515, 50515, 51776>>,
    <<49258, 32626, 18464, 33319, 15014, 34467, 13411, 829, 16174, 33899>>,
    <<18927, 32489, 6373, 60452, 3284, 44469, 19652, 58602, 57087, 40329>>,
    <<13955, 58504, 53832, 15279, 34462, 51465, 24511, 5110, 52897, 19251>>,
    <<1878, 19184, 17492, 32094, 11574, 40959, 40713, 53843, 38566, 59264>>,
    <<45882, 21293, 56268, 21642, 27523, 55867, 65028, 17730, 59261, 53253>>,
    <<58250, 16959, 33199, 25239, 4112, 16088, 13097, 58246, 53119, 55226>>,
    <<3911, 51457, 26818, 60082, 56793, 47825, 27641, 10374, 53552, 52212>>,
    <<44611, 21753, 55417, 45943, 53617, 11041, 38466, 26803, 52626, 2203>>,
    <<25637, 31643, 35367, 61809, 42297, 11668, 31670, 22153, 9005, 46587>>,
    <<30376, 30560, 43090, 27093, 60277, 52571, 42499, 36091, 55880, 48365>>,
    <<34413, 25940, 49896, 20205, 7414, 46032, 57838, 27112, 58972, 1374>>,
    <<11029, 60752, 1296, 27352, 19300, 18239, 28643, 47238, 24424, 62973>>,
    <<45603, 50181, 53363, 28308, 38374, 40111, 54369, 7197, 38753, 29006>>,
    <<11954, 3456, 34646, 2214, 8739, 46916, 54716, 7031, 38183, 24988>>,
    <<38899, 48027, 44187, 10441, 35374, 21074, 28917, 38670, 42415, 57031>>,
    <<17135, 58415, 12612, 21187, 13524, 39270, 6722, 32517, 59793, 47629>>,
    <<27468, 46106, 13383, 59268, 30492, 55145, 53305, 19643, 46616, 53016>>,
    <<43352, 45475, 21842, 14045, 9951, 25037, 36455, 18699, 12733, 64524>>,
    <<48199, 23501, 14985, 6603, 49735, 54347, 14341, 21877, 32573, 23153>>,
    <<23750, 22839, 10984, 25032, 47770, 17591, 24815, 24422, 61227, 34209>>,
    <<19187, 11694, 59148, 34945, 56975, 173, 58039, 12522, 38695, 17608>>,
    <<3255, 47469, 23052, 21824, 48579, 26333, 35308, 6208, 54589, 54960>>,
    <<9900, 56260, 50727, 36086, 63754, 40086, 26005, 21985, 32305, 25068>>,
    <<50091, 46332, 53042, 15502, 17316, 40243, 30034, 36882, 28355, 21813>>,
    <<27253, 50163, 27101, 63745, 45557, 58990, 49678, 57540, 58122, 49234>>,
    <<47170, 52616, 35286, 2749, 49271, 11384, 23953, 45320, 53211, 20952>>,
    <<42284, 29100, 64471, 34495, 14653, 1185, 7444, 26339, 7012, 63455>>,
    <<52887, 48679, 53960, 22283, 42154, 29393, 55688, 60276, 27808, 47199>>,
    <<58872, 19764, 24537, 32824, 2472, 63665, 39146, 63253, 28475, 63192>>,
    <<52677, 53959, 52029, 8778, 17083, 36271, 3944, 51235, 18824, 42427>>,
    <<11102, 47895, 37829, 27119, 20770, 49993, 37444, 1160, 2976, 52282>>,
    <<60297, 6886, 39014, 5662, 46798, 42254, 16002, 61543, 35687, 20618>>,
    <<23659, 45675, 49349, 13597, 31169, 39171, 46601, 33065, 19062, 3656>>,
    <<8802, 1888, 50021, 55186, 2386, 54817, 18596, 38912, 56706, 34096>>,
    <<31253, 61151, 8359, 25780, 46276, 25358, 32734, 12392, 46816, 2925>>,
    <<54178, 58918, 1416, 61779, 12413, 40865, 20759, 20323, 65025, 40526>>,
    <<3866, 3095, 45018, 63623, 35359, 5267, 6481, 46578, 19309, 48053>>,
    <<49710, 16303, 48731, 51554, 36257, 24462, 59672, 47463, 21411, 11001>>,
    <<12993, 24479, 3326, 48713, 62170, 20714, 38094, 11746, 12260, 36616>>,
    <<44370, 6121, 23834, 40719, 56116, 35154, 33526, 5670, 24458, 1784>>,
    <<32334, 32285, 43362, 56966, 50172, 24946, 19306, 20633, 7724, 15641>>,
    <<39627, 20157, 38313, 62528, 47587, 62795, 29671, 55750, 25056, 46634>>,
    <<60265, 55094, 25222, 28507, 9780, 51647, 1397, 6947, 9822, 35351>>,
    <<51664, 15630, 44822, 35584, 57436, 30636, 32087, 38697, 52081, 55794>>,
    <<54874, 19107, 57281, 32309, 4191, 6208, 47083, 45497, 56682, 19564>>,
    <<19548, 20177, 11255, 5828, 9644, 9525, 33065, 44546, 44029, 3004>>,
    <<25573, 32140, 4395, 6651, 60735, 43271, 4343, 16146, 55240, 27765>>,
    <<18916, 27771, 38301, 14638, 59164, 19202, 49646, 42089, 29919, 5550>>,
    <<14782, 24682, 635, 45644, 41896, 12340, 610, 32443, 11133, 39935>>,
    <<47372, 59194, 60052, 41785, 52685, 28119, 23951, 7147, 32125, 39139>>,
    <<29773, 52691, 33338, 4969, 19866, 48018, 61872, 27212, 37536, 24498>>,
    <<31477, 46586, 44390, 37865, 3354, 21339, 32344, 24169, 43456, 15828>>,
    <<57083, 30200, 5273, 53843, 47277, 3923, 56197, 6233, 42196, 46801>>,
    <<48354, 61654, 58266, 51605, 48066, 40210, 45689, 60980, 57123, 1042>>,
    <<21011, 3686, 57667, 25161, 12192, 9603, 45531, 43767, 43080, 5409>>,
    <<26105, 62554, 36320, 50838, 3182, 34512, 64420, 25569, 62121, 34941>>,
    <<55070, 42199, 21282, 53139, 15500, 18214, 59255, 38605, 59783, 60307>>,
    <<55236, 9813, 14257, 1292, 19665, 64353, 10246, 1521, 32157, 33837>>,
    <<20213, 42031, 31892, 45200, 52597, 10541, 52112, 28675, 21266, 22143>>,
    <<36724, 23118, 10264, 1318, 33790, 25000, 4834, 53126, 54358, 10955>>,
    <<39597, 24578, 40282, 52176, 40580, 14318, 36343, 55706, 60953, 8191>>,
    <<19362, 32502, 48019, 40777, 8851, 64479, 44841, 6623, 57168, 28806>>,
    <<27275, 57174, 50544, 62268, 3165, 32987, 13675, 63878, 60349, 40856>>,
    <<40079, 36785, 37107, 8942, 58911, 2030, 21373, 54211, 19130, 27442>>,
    <<14253, 51965, 23939, 13649, 29493, 28294, 20448, 4680, 17933, 16137>>,
    <<9432, 58171, 27994, 40114, 15689, 42832, 14429, 27722, 55990, 63768>>,
    <<49160, 45615, 28063, 23395, 26972, 22952, 23053, 14484, 8723, 54848>>,
    <<51404, 45879, 28654, 45346, 46544, 36861, 1153, 44396, 18197, 43046>>,
    <<22394, 24964, 62938, 46026, 8301, 65518, 38708, 34444, 31218, 33187>>,
    <<2653, 39351, 22482, 30715, 6278, 56168, 4141, 44058, 30269, 61910>>,
    <<28135, 18553, 38783, 15424, 43371, 21570, 48135, 10426, 5265, 57441>>,
    <<7039, 32232, 4830, 1442, 24916, 10474, 22683, 32073, 46760, 41994>>,
    <<30891, 14766, 16165, 42403, 4083, 59846, 26669, 46115, 2541, 63101>>,
    <<16525, 8923, 5151, 6925, 12555, 37838, 14429, 19200, 9033, 51981>>,
    <<10262, 44651, 61155, 7032, 44969, 46717, 2640, 23385, 15133, 5928>>,
    <<56613, 63835, 51764, 47756, 37601, 5268, 4133, 30019, 62691, 42775>>,
    <<44068, 40869, 8853, 5523, 38714, 36421, 23638, 25405, 24549, 29247>>,
    <<51651, 42323, 50106, 14080, 30312, 63522, 35070, 3699, 17267, 33293>>,
    <<50121, 6540, 30651, 48633, 69, 30925, 36478, 59877, 51650, 8434>>,
    <<22351, 25451, 36270, 31684, 29890, 40006, 42361, 56104, 34923, 29185>>,
    <<41770, 55321, 28841, 21089, 7481, 51159, 41549, 33491, 53141, 27366>>,
    <<18120, 14283, 40758, 34368, 18613, 63390, 33699, 16327, 58081, 24607>>,
    <<52197, 64407, 61548, 50162, 60483, 54309, 24259, 47944, 48101, 36660>>,
    <<22311, 42459, 33771, 42808, 26343, 7326, 9334, 2472, 52966, 19855>>,
    <<40569, 49155, 34373, 58924, 39556, 34265, 40673, 55255, 57367, 46566>>,
    <<3508, 46986, 61702, 27799, 42596, 57813, 11720, 2302, 47368, 1363>>,
    <<30270, 57650, 48242, 50309, 34143, 33392, 14403, 25913, 63518, 22068>>,
    <<1231, 35277, 32141, 10173, 36647, 48779, 18430, 65130, 29892, 20425>>,
    <<48143, 33252, 41822, 36700, 3125, 61402, 54739, 37060, 34420, 35204>>,
    <<6104, 9394, 19842, 19896, 21528, 29888, 37997, 20155, 7652, 25423>>,
    <<56791, 54959, 42296, 8708, 3316, 60243, 62692, 24844, 9630, 48042>>,
    <<39766, 46844, 5246, 41346, 22142, 62682, 6353, 18186, 44601, 5754>>,
    <<2349, 60099, 56347, 53336, 38201, 45067, 285, 59713, 32747, 32446>>,
    <<13602, 24496, 44905, 51136, 64856, 16376, 47733, 34207, 13877, 38820>>,
    <<43953, 33836, 29623, 52395, 56700, 64828, 16864, 57982, 11782, 41069>>,
    <<38184, 37982, 15198, 56097, 63286, 34102, 57016, 23290, 8171, 9228>>,
    <<47886, 49332, 61789, 35130, 50310, 18939, 35975, 37688, 42322, 62390>>,
    <<39420, 58306, 14180, 51815, 26430, 31260, 44368, 26439, 11329, 53482>>,
    <<28874, 1836, 23910, 19550, 20420, 27992, 26267, 48938, 31221, 62880>>,
    <<32239, 39860, 31132, 1302, 57153, 11479, 60657, 32144, 50621, 34085>>,
    <<39573, 50043, 40764, 26883, 8950, 4644, 22755, 23426, 47291, 34693>>,
    <<45374, 42796, 27709, 3583, 32146, 16627, 43906, 44967, 45217, 36854>>,
    <<47894, 24722, 21932, 24002, 29580, 52711, 61446, 49502, 9956, 60805>>,
    <<47126, 57916, 32574, 10272, 22502, 25749, 58152, 51577, 28637, 57781>>,
    <<50760, 36916, 38336, 37800, 19368, 38317, 16230, 13844, 54804, 33448>>,
    <<31397, 9613, 31879, 6865, 13021, 16527, 25904, 57835, 4632, 56351>>,
    <<33319, 26293, 31700, 7402, 55435, 34130, 10751, 52962, 9469, 22678>>,
    <<36127, 27765, 26721, 43167, 58783, 50439, 31490, 40586, 55564, 22227>>,
    <<64365, 24516, 27358, 53582, 12932, 7504, 2519, 20319, 60318, 49036>>,
    <<59043, 48898, 42301, 47565, 35762, 23059, 22707, 21587, 23841, 28333>>,
    <<4479, 51042, 44923, 46769, 27799, 6092, 42636, 9815, 51064, 29996>>,
    <<25397, 54620, 253, 40640, 22687, 25188, 14422, 50143, 9527, 10301>>,
    <<2884, 13438, 41340, 17641, 59702, 63706, 30905, 18130, 25643, 19200>>,
    <<2887, 1041, 22817, 34678, 21767, 62702, 50127, 58900, 45093, 51125>>,
    <<37896, 12426, 2489, 27231, 17279, 28293, 54551, 55966, 44289, 54619>>,
    <<21489, 19893, 14228, 43836, 3031, 55288, 39538, 58689, 24039, 22771>>,
    <<45676, 41495, 43607, 42755, 7479, 63081, 4034, 32673, 50521, 2062>>,
    <<30966, 30102, 37570, 58682, 11148, 57266, 15578, 27305, 27862, 44314>>,
    <<28619, 51700, 62513, 22415, 64377, 19431, 47737, 33727, 442, 4419>>,
    <<22841, 62026, 53427, 59608, 63677, 3844, 1051, 27055, 37930, 35705>>,
    <<13132, 33932, 60075, 11326, 59428, 2574, 16936, 54561, 45261, 20948>>,
    <<13047, 54620, 6870, 60772, 34568, 15980, 34479, 50374, 63447, 25069>>,
    <<2113, 58435, 2263, 64834, 12751, 50505, 36548, 15387, 53439, 21401>>,
    <<49139, 57734, 57274, 30144, 21227, 24364, 26971, 23645, 8241, 64670>>,
    <<7089, 61361, 30173, 50879, 50405, 48767, 59778, 13120, 58809, 17963>>,
    <<20979, 53209, 20532, 39910, 47244, 11145, 60175, 19169, 53532, 11156>>,
    <<23327, 31237, 43503, 56535, 30809, 25334, 63899, 7925, 55763, 48890>>,
    <<10573, 53812, 56588, 61664, 34336, 58526, 55648, 46358, 5978, 39039>>,
    <<62379, 28410, 35218, 57429, 36754, 10115, 67, 42282, 42300, 36976>>,
    <<20074, 37995, 42219, 17200, 34548, 28920, 46453, 9824, 42104, 35600>>,
    <<33058, 37798, 25557, 18645, 14566, 14089, 50016, 57753, 50863, 13272>>,
    <<41358, 52235, 50340, 47240, 22908, 29699, 34857, 54062, 44596, 52817>>,
    <<45862, 18891, 62221, 16055, 26245, 25478, 44126, 37239, 39088, 13332>>,
    <<41231, 30421, 25554, 21513, 60417, 36603, 2084, 6490, 14746, 25551>>,
    <<34577, 11960, 10686, 43602, 21172, 41052, 45820, 65391, 54789, 46560>>,
    <<9956, 39221, 62027, 32761, 26721, 34975, 41666, 11631, 4806, 53842>>,
    <<57871, 30808, 28558, 20793, 35216, 40948, 2354, 34753, 559, 42058>>,
    <<12362, 57600, 64055, 1767, 42328, 30831, 36438, 3119, 24757, 55204>>,
    <<23164, 63228, 43121, 19312, 46761, 54861, 40128, 26756, 8102, 6488>>,
    <<64872, 46369, 64389, 9770, 53560, 12407, 1225, 21599, 23630, 20836>>,
    <<20959, 60576, 50343, 39893, 57663, 278, 23203, 41577, 53826, 4691>>,
    <<1906, 55371, 34672, 19402, 53280, 20123, 58944, 25005, 21337, 8654>>,
    <<59561, 16079, 29532, 39653, 22907, 28977, 55217, 60916, 62075, 22014>>,
    <<63819, 33111, 25052, 48980, 16991, 24267, 36053, 35834, 58600, 43610>>,
    <<29394, 15084, 35733, 44509, 50376, 19164, 4879, 30161, 24972, 62797>>,
    <<65373, 18615, 63573, 6131, 53328, 13349, 33457, 55456, 41680, 36868>>,
    <<3607, 12309, 48092, 40528, 55760, 43384, 4758, 43529, 22230, 12389>>,
    <<62547, 4924, 61565, 61201, 44769, 27319, 51351, 36559, 14015, 30676>>,
    <<61290, 21631, 1400, 16847, 24332, 64183, 2258, 9379, 30955, 30390>>,
    <<13495, 47934, 25829, 22353, 43954, 1984, 26251, 3548, 65306, 41715>>,
    <<37879, 22486, 60420, 37836, 13767, 15881, 14598, 28656, 46514, 55507>>,
    <<25215, 34559, 28785, 22788, 11215, 53799, 58069, 30041, 59068, 39449>>,
    <<61921, 9143, 831, 55384, 41044, 23863, 41547, 46361, 33836, 56714>>,
    <<16458, 23648, 64753, 41604, 34779, 64305, 15015, 4577, 23355, 26788>>,
    <<7660, 15844, 32682, 56686, 62775, 41835, 47746, 4881, 53126, 30682>>,
    <<38906, 35107, 27226, 29438, 50488, 43493, 56765, 64614, 23780, 21346>>,
    <<25758, 11925, 55377, 44817, 64325, 51690, 25199, 14183, 923, 26161>>,
    <<4383, 40809, 49693, 10704, 12986, 31524, 61342, 38888, 62692, 22197>>,
    <<30730, 25594, 48913, 63639, 42024, 46933, 63988, 36589, 51145, 46778>>,
    <<11269, 58494, 14420, 30403, 7883, 64657, 9372, 38573, 26572, 8299>>,
    <<14922, 48302, 33236, 21699, 51170, 36986, 36165, 62526, 37903, 5684>>,
    <<61775, 24968, 23407, 14615, 53816, 21361, 29353, 7062, 4843, 29364>>,
    <<7946, 25816, 21613, 27898, 36623, 33994, 44911, 17977, 34139, 2866>>,
    <<55983, 27571, 1141, 28287, 49172, 47739, 2635, 19309, 5665, 32591>>,
    <<49801, 39717, 33377, 63967, 50112, 15831, 5013, 50764, 9925, 33243>>,
    <<45332, 43990, 3891, 21740, 60249, 34950, 9895, 3876, 61775, 59259>>,
    <<26497, 45497, 12425, 7311, 44775, 8403, 28006, 15452, 3883, 35125>>,
    <<61777, 4235, 42417, 26102, 45211, 51577, 42625, 43134, 21715, 2942>>,
    <<25873, 26425, 15594, 47723, 48389, 33263, 23183, 18954, 7059, 16695>>,
    <<57658, 50746, 45653, 3845, 62285, 43386, 27334, 38214, 8872, 19937>>,
    <<14879, 14002, 37695, 2872, 37002, 33138, 53084, 12982, 33354, 47417>>,
    <<22330, 33836, 59596, 17569, 65199, 15609, 53901, 56126, 4105, 9874>>,
    <<45932, 46863, 42467, 14131, 45676, 26596, 27531, 8570, 46937, 20005>>,
    <<10541, 62971, 54690, 38170, 14722, 52016, 13809, 55494, 60141, 47341>>,
    <<36657, 59853, 21271, 34699, 24423, 48103, 47643, 19939, 27733, 33675>>,
    <<56980, 28707, 3281, 27069, 16896, 6130, 21072, 20949, 53821, 13587>>,
    <<22543, 47043, 29005, 16868, 39396, 18710, 27157, 28490, 58425, 51003>>,
    <<54112, 7713, 28143, 8259, 60390, 24086, 35473, 3325, 31542, 59990>>,
    <<61582, 3002, 59061, 43631, 13600, 53421, 50408, 27685, 10628, 37975>>,
    <<63867, 53537, 27215, 24980, 12860, 39757, 33185, 41630, 29701, 38648>>,
    <<47424, 7928, 46411, 41082, 1036, 63244, 26535, 64587, 15135, 11557>>,
    <<51470, 11053, 43993, 35957, 60857, 25823, 64119, 13576, 28483, 19519>>,
    <<9957, 10768, 53998, 6762, 8856, 14408, 49958, 24235, 4689, 36504>>,
    <<65506, 58006, 4576, 25791, 26072, 31173, 28069, 25443, 62993, 3259>>,
    <<36594, 18889, 21012, 159, 33577, 62349, 35689, 50381, 15558, 1094>>,
    <<17638, 10453, 35317, 22428, 36399, 60535, 18389, 64166, 60614, 64643>>,
    <<45442, 39487, 36720, 26627, 15021, 2450, 43048, 7438, 18881, 22686>>,
    <<59537, 12026, 26173, 38348, 16527, 6698, 11813, 984, 63706, 55769>>,
    <<60459, 40225, 14980, 21896, 20449, 33428, 8748, 55787, 32972, 47743>>,
    <<14086, 34949, 31807, 61044, 25461, 41123, 31443, 32507, 63063, 16322>>,
    <<15788, 26514, 57777, 48514, 63808, 19958, 4491, 26606, 9641, 4940>>,
    <<40793, 34411, 14568, 62163, 34673, 54690, 58645, 40833, 28459, 44195>>,
    <<34259, 40736, 36725, 21282, 62190, 51287, 19285, 40045, 25526, 38199>>,
    <<60191, 13758, 37859, 12565, 37590, 51214, 12756, 42909, 41406, 30472>>,
    <<65282, 19588, 14002, 27011, 3250, 2699, 29026, 31513, 57996, 18766>>,
    <<14224, 4888, 3945, 64354, 25868, 65370, 31433, 49960, 55991, 25390>>,
    <<59711, 35730, 27895, 64121, 14769, 42016, 41044, 46573, 2837, 4370>>,
    <<1863, 8904, 65448, 19675, 24162, 53871, 30391, 35918, 47148, 59782>>,
    <<34441, 43645, 7641, 39565, 33969, 46013, 51871, 22647, 53516, 2352>>,
    <<46055, 4852, 59599, 21125, 1959, 6263, 52576, 48043, 44329, 39091>>,
    <<37188, 15685, 4722, 24270, 15287, 37142, 9224, 48584, 37055, 56535>>,
    <<58587, 19060, 33504, 14979, 24269, 46406, 63577, 26378, 4516, 29141>>,
    <<19405, 9258, 24700, 54822, 31137, 40983, 43727, 10160, 57027, 32468>>,
    <<43578, 61654, 9002, 4670, 59143, 64302, 13631, 11450, 13408, 21684>>,
    <<19898, 60873, 40217, 61699, 65495, 25367, 47408, 50423, 64400, 6668>>,
    <<12979, 54322, 28680, 46114, 26963, 58402, 29564, 20570, 32192, 27664>>,
    <<48541, 26800, 54708, 57329, 47074, 6391, 24762, 26226, 58920, 60398>>,
    <<58427, 6494, 19198, 17870, 42831, 12106, 62500, 38034, 22390, 58476>>,
    <<19125, 55356, 9237, 20918, 50115, 37131, 34898, 35459, 23446, 1609>>,
    <<10396, 23663, 27720, 3156, 52619, 44106, 62792, 19554, 62355, 21539>>,
    <<11174, 14796, 15945, 19604, 52376, 13966, 37103, 56534, 5163, 8145>>,
    <<62680, 28217, 37344, 4845, 6402, 10957, 17941, 42126, 62541, 20131>>,
    <<42814, 41412, 9387, 32039, 16305, 62370, 28494, 62419, 46914, 14459>>,
    <<61268, 57654, 47145, 221, 6818, 46364, 11981, 580, 13958, 24836>>,
    <<45305, 12256, 5647, 6717, 53635, 43681, 52758, 63574, 57286, 62795>>,
    <<41134, 43008, 8476, 64041, 63095, 42223, 31334, 54171, 56249, 47763>>,
    <<21130, 64390, 61316, 53587, 5104, 2214, 14494, 47911, 41014, 13597>>,
    <<30722, 9132, 57335, 21530, 49164, 49749, 13406, 35276, 18007, 7839>>,
    <<36465, 30679, 20516, 45662, 61382, 60281, 64880, 17417, 57021, 19099>>,
    <<64054, 22129, 50519, 13795, 1251, 18976, 36133, 30682, 51393, 10702>>,
    <<63316, 59803, 27583, 40740, 21143, 57469, 28545, 25061, 11925, 44975>>,
    <<55656, 741, 45630, 60110, 11626, 29576, 65326, 45415, 12228, 12233>>,
    <<2348, 2546, 21302, 28549, 31983, 8066, 18396, 31938, 38298, 37817>>,
    <<51034, 40885, 2627, 8999, 7545, 30193, 28366, 47647, 58332, 16988>>,
    <<60536, 61309, 65128, 47234, 29160, 13422, 64461, 12828, 28928, 42065>>,
    <<10451, 21545, 57247, 8021, 63064, 51512, 35864, 28345, 25825, 58891>>,
    <<27225, 12230, 14139, 11599, 64580, 14412, 3876, 65525, 4126, 43193>>,
    <<31312, 10974, 23680, 55937, 29551, 22799, 42603, 25977, 13473, 422>>,
    <<63480, 15827, 34864, 43522, 55088, 57012, 7672, 14614, 15280, 58455>>,
    <<52356, 60322, 8301, 17572, 37849, 56189, 15829, 1779, 8700, 31231>>,
    <<53741, 41502, 57323, 23996, 19979, 47448, 3906, 42951, 34371, 13813>>,
    <<40205, 22499, 8060, 43936, 48144, 60538, 15652, 14599, 42721, 58258>>,
    <<62535, 28027, 56663, 16542, 29816, 22996, 14152, 58341, 16974, 63144>>,
    <<37086, 61567, 8439, 43921, 53987, 36192, 57903, 64149, 50309, 16417>>,
    <<52009, 39223, 47602, 60515, 56928, 30207, 20531, 9882, 56575, 27936>>,
    <<59737, 15389, 7097, 65405, 54864, 3356, 39243, 23101, 33006, 44220>>,
    <<61754, 23685, 45304, 40823, 31632, 34551, 6990, 582, 38297, 50841>>,
    <<3299, 25971, 54336, 33741, 23186, 41843, 2832, 35708, 15379, 64730>>,
    <<2757, 6067, 8347, 63493, 30948, 34291, 15437, 61850, 26232, 26339>>,
    <<56113, 9685, 59327, 9525, 54320, 34651, 45289, 50882, 48691, 58945>>,
    <<31991, 5096, 35052, 5777, 27734, 31969, 5712, 4063, 39222, 25467>>,
    <<41931, 34154, 54594, 23970, 45752, 2545, 50915, 30975, 11167, 58308>>,
    <<38679, 58788, 34929, 12857, 43101, 20259, 24742, 10906, 5063, 63158>>,
    <<18614, 3203, 55362, 38864, 54209, 22775, 4114, 58500, 10311, 47260>>,
    <<14773, 27620, 44741, 31812, 19506, 60580, 4690, 17253, 52229, 39861>>,
    <<25775, 12348, 24921, 36240, 60904, 6511, 13601, 2934, 33748, 407>>,
    <<23277, 44381, 9880, 23425, 11703, 20717, 29900, 23699, 11007, 23618>>,
    <<23441, 19840, 64610, 22404, 12461, 44676, 22229, 63840, 5342, 55495>>,
    <<50484, 40796, 572, 64185, 554, 25702, 50360, 11686, 10669, 52210>>,
    <<6585, 30955, 9303, 44824, 15764, 9669, 9263, 47830, 17984, 4514>>,
    <<2913, 43358, 29213, 45981, 61062, 32526, 25387, 9813, 8324, 2117>>,
    <<23771, 51059, 53309, 28556, 55110, 45051, 21195, 52985, 63392, 9666>>,
    <<42805, 55688, 18592, 63296, 33487, 56071, 37911, 28534, 47694, 13025>>,
    <<55859, 41452, 42674, 22375, 22130, 58797, 19888, 20749, 53328, 30660>>,
    <<37908, 27801, 3659, 39928, 26359, 3128, 1474, 21067, 23368, 25690>>,
    <<18592, 19301, 14711, 53667, 23407, 34417, 10325, 15245, 29688, 53685>>,
    <<43000, 25546, 22278, 12442, 43755, 27199, 52780, 49082, 49448, 49504>>,
    <<34679, 7494, 2228, 35962, 58307, 49397, 472, 58572, 13451, 42198>>,
    <<17733, 64460, 43935, 41485, 61758, 20340, 5819, 33080, 51445, 37853>>,
    <<10166, 60940, 51218, 1155, 51714, 25427, 60027, 672, 36377, 16486>>,
    <<4695, 16264, 24487, 65193, 59108, 28702, 6008, 51711, 3907, 34664>>,
    <<27264, 15839, 63423, 30526, 37750, 10118, 55842, 51438, 40241, 2133>>,
    <<56482, 44714, 21224, 57363, 9390, 26362, 41366, 30770, 51876, 2565>>,
    <<10601, 61517, 36065, 5902, 44170, 11094, 22829, 17108, 35583, 20133>>,
    <<3495, 65428, 51378, 20362, 19817, 48736, 48295, 52145, 57112, 30135>>,
    <<38858, 32657, 28065, 27950, 23210, 31142, 34955, 4673, 43331, 28512>>,
    <<48966, 36238, 12208, 60403, 34138, 5832, 28187, 43581, 63316, 6035>>,
    <<51393, 866, 43158, 41814, 60700, 53005, 33260, 53738, 8827, 31531>>,
    <<44394, 62091, 37944, 41058, 19481, 22725, 59595, 34117, 36862, 19326>>,
    <<37578, 49496, 16478, 45019, 20722, 52674, 8581, 5862, 57754, 47679>>,
    <<27375, 46629, 36196, 11007, 5917, 61761, 24580, 50288, 60383, 2383>>,
    <<729, 65427, 30912, 41503, 56263, 22353, 7540, 15984, 44830, 52722>>,
    <<4126, 28571, 53923, 42256, 60809, 26568, 50903, 40576, 6656, 44951>>,
    <<21468, 41959, 12412, 60621, 32462, 64078, 35636, 23861, 17621, 60879>>,
    <<38595, 17610, 27003, 51742, 23019, 5034, 15496, 30886, 11376, 51257>>,
    <<10360, 37469, 54546, 18639, 18124, 33824, 3734, 36112, 8058, 34844>>,
    <<21456, 47491, 19617, 38798, 61244, 47117, 53652, 52722, 30334, 60552>>,
    <<32741, 10043, 49373, 13058, 32178, 3956, 45044, 46444, 8992, 53249>>,
    <<30887, 5581, 8367, 59159, 5439, 59788, 56056, 20283, 54902, 53239>>,
    <<20702, 42316, 42335, 34783, 26718, 11497, 55116, 32671, 4007, 4678>>,
    <<58851, 41323, 14981, 55052, 60139, 13589, 671, 52287, 654, 24869>>,
    <<37501, 43320, 11211, 2561, 5968, 8561, 41703, 40781, 11239, 64003>>,
    <<3373, 9475, 11178, 44565, 15350, 31395, 11371, 61577, 30297, 43856>>,
    <<33499, 32483, 32080, 5337, 54950, 37601, 46778, 26403, 4305, 41923>>,
    <<46223, 7085, 42100, 53524, 27593, 60788, 45044, 6376, 7707, 53589>>,
    <<56562, 38191, 36004, 34637, 59498, 59456, 21351, 14303, 35304, 47802>>,
    <<11913, 62817, 15189, 27100, 12893, 63310, 63285, 10200, 11066, 65470>>,
    <<47174, 47377, 30116, 57001, 36462, 65453, 63993, 56948, 57719, 10700>>,
    <<12710, 59901, 28693, 29949, 29798, 22953, 34700, 56284, 13630, 1959>>,
    <<41254, 11883, 12396, 59780, 46679, 59110, 60229, 6354, 25201, 11120>>,
    <<21949, 33356, 36301, 8867, 6816, 17047, 17921, 42473, 37446, 38873>>,
    <<16701, 40886, 58165, 36264, 32670, 14320, 9368, 17959, 62063, 58036>>,
    <<64682, 50617, 54133, 64947, 46635, 57031, 40443, 11254, 29928, 37256>>,
    <<46666, 5753, 19765, 20834, 32000, 53617, 17807, 53056, 6472, 18221>>,
    <<40759, 25005, 56763, 48760, 56434, 49678, 30008, 61595, 58411, 23600>>,
    <<52998, 802, 45430, 58759, 29488, 37987, 17404, 21510, 16898, 7819>>,
    <<1668, 42518, 31965, 63912, 36386, 5439, 22813, 20094, 34416, 18109>>,
    <<43989, 45412, 54970, 14483, 52421, 27301, 25790, 1380, 48426, 43598>>,
    <<53575, 63004, 50329, 3327, 33155, 5403, 23477, 6645, 58483, 11914>>,
    <<49215, 20718, 20388, 6490, 38770, 57908, 46024, 59979, 52169, 51164>>,
    <<30829, 23265, 3008, 63756, 58698, 3061, 32046, 37068, 29351, 28910>>,
    <<43818, 60725, 50249, 42406, 10068, 53424, 18668, 22919, 30953, 17997>>,
    <<399, 31407, 7709, 23408, 36440, 3493, 33981, 39391, 51632, 54700>>,
    <<49793, 32673, 39486, 58677, 37821, 64406, 38424, 55932, 5546, 40457>>,
    <<2219, 57079, 24512, 40024, 32373, 27024, 62768, 6831, 44949, 15056>>,
    <<14689, 62365, 39561, 22966, 40467, 11522, 47394, 42736, 44195, 55314>>,
    <<27138, 25083, 3484, 60394, 46639, 49285, 7471, 41595, 17824, 22465>>,
    <<56801, 25579, 6801, 59978, 15179, 34909, 25774, 49030, 51516, 11278>>,
    <<4759, 16986, 15498, 38527, 30632, 41249, 36097, 7520, 46985, 14574>>,
    <<46552, 44195, 25872, 39924, 31059, 37778, 61101, 56056, 35088, 16400>>,
    <<4157, 49545, 26297, 2668, 31179, 59973, 45527, 57689, 45897, 41151>>,
    <<62225, 24950, 35971, 12931, 7986, 13263, 37844, 57347, 46505, 1186>>,
    <<22917, 42535, 61918, 10181, 31863, 47394, 53215, 59401, 5127, 37362>>,
    <<18174, 8619, 9741, 58792, 57793, 140, 60921, 41558, 24005, 5095>>,
    <<56947, 55440, 57572, 28251, 24417, 47828, 20447, 21154, 30098, 44987>>,
    <<51130, 42115, 52601, 49703, 46031, 55148, 18392, 36346, 58729, 5286>>,
    <<8276, 56420, 7541, 17231, 11599, 24901, 42454, 16228, 27539, 18131>>,
    <<55168, 35784, 13171, 9591, 38687, 64071, 61022, 3657, 56486, 8373>>,
    <<62541, 13624, 28847, 11679, 10924, 38959, 25074, 34422, 53684, 14685>>,
    <<31855, 14265, 13619, 13175, 50841, 51242, 52031, 35720, 10223, 31870>>,
    <<40636, 16512, 24868, 12869, 2786, 526, 22280, 44045, 2154, 28475>>,
    <<16947, 25232, 52841, 36979, 40131, 33442, 43085, 54509, 14391, 10321>>,
    <<30662, 42847, 14750, 64882, 5165, 473, 8466, 29644, 9681, 9291>>,
    <<63019, 27843, 44689, 35940, 27676, 18676, 62162, 63644, 22307, 50685>>,
    <<22198, 35320, 13475, 14204, 8066, 20637, 54670, 13684, 37191, 6426>>,
    <<53688, 41200, 55572, 5886, 57254, 63265, 46397, 62183, 8338, 2837>>,
    <<27472, 49978, 14025, 11863, 39145, 9588, 34723, 59930, 964, 60930>>,
    <<42505, 11621, 12876, 35123, 51756, 15083, 11253, 46257, 65068, 21433>>,
    <<42377, 41500, 15670, 36142, 60138, 42880, 24186, 1916, 9021, 15150>>,
    <<22039, 33626, 41069, 46116, 29537, 41025, 41988, 63276, 34521, 7323>>,
    <<36712, 42108, 37827, 47474, 58310, 3066, 16426, 64499, 12860, 3091>>,
    <<25167, 31727, 3472, 20835, 5246, 65309, 62911, 56007, 30927, 41584>>,
    <<33241, 51246, 33427, 56324, 24100, 35859, 5888, 34141, 55937, 23103>>,
    <<32733, 44124, 8186, 21112, 18904, 54703, 5378, 54444, 27224, 28066>>,
    <<40345, 1389, 37810, 13732, 54704, 30916, 48151, 1970, 40913, 55115>>,
    <<19881, 63512, 54314, 20013, 8564, 319, 49952, 64193, 50488, 29113>>,
    <<20310, 38897, 58280, 7089, 60789, 17063, 509, 51168, 17804, 47423>>,
    <<40559, 20322, 42222, 21508, 7980, 59416, 64871, 3, 2386, 27196>>,
    <<3417, 1784, 8972, 56701, 65326, 60890, 34359, 36119, 44838, 47176>>,
    <<34469, 64268, 3647, 61587, 65209, 19373, 56508, 14509, 54205, 59943>>,
    <<61274, 39694, 40257, 51635, 24593, 8486, 17572, 24054, 10689, 17734>>,
    <<5228, 296, 1285, 2627, 30909, 56014, 63146, 22154, 45935, 7284>>,
    <<3360, 46902, 4373, 55877, 10100, 9870, 11536, 58421, 65405, 20348>>,
    <<44822, 37175, 6263, 6110, 58382, 27892, 25256, 29770, 6364, 31449>>,
    <<44184, 25086, 258, 49760, 52009, 60801, 43444, 36242, 20324, 58358>>,
    <<25807, 40339, 11623, 3361, 44327, 25064, 12616, 49081, 569, 52949>>,
    <<20745, 38658, 14352, 61335, 26089, 17514, 35087, 3086, 17638, 11825>>,
    <<808, 35401, 40399, 36381, 2336, 11113, 50555, 5785, 40350, 13400>>,
    <<41396, 7223, 6980, 16206, 32781, 15327, 11454, 60200, 36782, 62639>>,
    <<20087, 44940, 12514, 56661, 33885, 28216, 22749, 52797, 50497, 23517>>,
    <<6300, 37373, 60246, 13683, 55349, 34283, 31511, 5946, 62074, 53982>>,
    <<13607, 55226, 33585, 19239, 55740, 9332, 1672, 25700, 56573, 6820>>,
    <<57262, 470, 31384, 57515, 35116, 61324, 60397, 33080, 19552, 23037>>,
    <<62744, 19312, 9967, 49382, 63412, 5930, 15188, 25627, 21000, 19924>>,
    <<26324, 60614, 30325, 29280, 12290, 44483, 18280, 418, 12147, 23374>>,
    <<12006, 44275, 42176, 31025, 16313, 16601, 37736, 10478, 50601, 59383>>,
    <<24682, 69, 64279, 11077, 53219, 41933, 5696, 5056, 44308, 54912>>,
    <<32536, 34600, 15498, 29935, 31319, 28013, 37817, 13484, 60142, 26759>>,
    <<6228, 62921, 24004, 8811, 29909, 62592, 54111, 27152, 279, 736>>,
    <<58065, 39010, 60567, 19216, 35905, 37587, 8681, 31598, 61080, 59010>>,
    <<28082, 48317, 60578, 54520, 49396, 16480, 60582, 10394, 46336, 49062>>,
    <<4567, 23937, 15599, 18558, 63611, 11533, 48078, 33329, 41631, 9902>>,
    <<31203, 1662, 62686, 27293, 46394, 53367, 17235, 29390, 5541, 36050>>,
    <<24961, 9241, 32991, 38106, 31885, 22800, 53138, 42544, 10559, 16422>>,
    <<22260, 23219, 27918, 54107, 45111, 52705, 58991, 54028, 25689, 59148>>,
    <<20833, 65370, 59389, 24876, 63559, 18694, 20332, 19361, 39341, 30827>>,
    <<5588, 62057, 5925, 28999, 27578, 39765, 25853, 34744, 30992, 49481>>,
    <<28486, 8756, 29258, 32279, 48228, 49607, 51095, 12298, 55059, 52365>>,
    <<12058, 16054, 14305, 64491, 57033, 38107, 45871, 40899, 47228, 32933>>,
    <<23527, 17112, 17026, 17384, 2816, 30388, 41584, 51751, 24611, 48911>>,
    <<62837, 17538, 53269, 2018, 9063, 26280, 56987, 1564, 41857, 22882>>,
    <<17672, 5974, 19810, 21693, 52616, 9835, 51060, 51001, 33224, 18188>>,
    <<7685, 23380, 36094, 32992, 55424, 20236, 31749, 63063, 50014, 48087>>,
    <<64858, 49449, 32710, 53782, 11613, 22141, 51442, 56925, 59232, 45535>>,
    <<9778, 61293, 7802, 43528, 64080, 2541, 19589, 28230, 30541, 36360>>,
    <<26627, 32358, 30020, 20627, 13468, 32424, 11971, 42952, 12070, 23595>>,
    <<17749, 18171, 30512, 59804, 63607, 50063, 57094, 38022, 52837, 15397>>,
    <<31480, 20175, 7400, 33320, 29393, 52895, 29018, 13033, 52026, 45481>>,
    <<474, 10058, 28491, 12178, 6875, 61326, 22964, 34663, 64963, 24945>>,
    <<2289, 51772, 32163, 39898, 32386, 40726, 65058, 12806, 4156, 38745>>,
    <<22762, 21395, 6845, 48327, 47829, 11050, 63873, 44499, 41337, 12895>>,
    <<51669, 3069, 10610, 59930, 42275, 44791, 26906, 58417, 55820, 48255>>,
    <<38430, 17376, 40625, 38043, 61556, 56183, 13763, 25739, 7761, 64585>>,
    <<65535, 10924, 30563, 25114, 27284, 39518, 65016, 4840, 17548, 54964>>,
    <<4041, 9088, 22189, 4064, 4561, 20142, 33327, 22349, 30349, 10362>>,
    <<52734, 61782, 10239, 65437, 12775, 45092, 38835, 38015, 29422, 10201>>,
    <<11445, 17491, 4688, 49184, 37922, 61807, 17787, 53894, 35895, 59674>>,
    <<55103, 3243, 35827, 34199, 21077, 52005, 25845, 6874, 3818, 49576>>,
    <<17460, 46212, 60160, 30084, 58662, 57908, 14907, 35178, 35520, 40845>>,
    <<7941, 42683, 63489, 56522, 50335, 57295, 53903, 36429, 29739, 25428>>,
    <<52436, 27809, 28611, 24341, 62301, 39359, 1209, 45102, 4977, 63031>>,
    <<52074, 31513, 12320, 15824, 2471, 2501, 15910, 54150, 33845, 52834>>,
    <<40043, 28901, 44972, 39711, 37799, 36811, 11699, 1395, 14284, 35396>>,
    <<31588, 31531, 24324, 8744, 22644, 46061, 6798, 58520, 50018, 13029>>,
    <<50121, 55169, 56248, 22177, 45326, 47360, 51600, 50502, 30370, 25635>>,
    <<55341, 30062, 12265, 51242, 293, 6793, 60020, 15312, 24908, 40817>>,
    <<54105, 31710, 50400, 44066, 12361, 15476, 39773, 56357, 64403, 4160>>,
    <<13282, 47645, 49595, 32214, 49610, 52211, 45553, 50040, 14079, 15266>>,
    <<44849, 55655, 9143, 62517, 30113, 51555, 22235, 12177, 51144, 32549>>,
    <<58680, 36591, 43367, 24525, 709, 64499, 1336, 41464, 28665, 24456>>,
    <<61751, 31388, 5243, 61863, 8450, 5176, 31836, 54164, 62486, 40532>>,
    <<49836, 16160, 7034, 1111, 44216, 13020, 48428, 5872, 48504, 45643>>,
    <<5546, 59053, 20196, 61496, 9762, 14299, 62841, 8024, 49663, 15161>>,
    <<23847, 48720, 37195, 18294, 20552, 51474, 26355, 15363, 40238, 11575>>,
    <<43496, 16578, 53838, 51443, 61606, 35086, 62496, 14525, 62904, 60120>>,
    <<23697, 54780, 32374, 53872, 52609, 5432, 21729, 54368, 1773, 28879>>,
    <<50838, 41948, 63567, 9307, 26259, 633, 32926, 46618, 22760, 22178>>,
    <<55446, 20196, 3995, 26774, 50044, 17592, 18765, 55309, 11105, 51575>>,
    <<59206, 20627, 58228, 59866, 25455, 12787, 2044, 10868, 39457, 28652>>,
    <<2446, 42819, 9315, 16335, 22088, 36017, 21513, 18666, 27090, 37203>>,
    <<10942, 65495, 46455, 54253, 39529, 29649, 11147, 19744, 29972, 55868>>,
    <<56609, 2075, 44964, 25129, 26965, 42643, 26942, 45006, 9592, 32968>>,
    <<54199, 8161, 26267, 22926, 58452, 54251, 42065, 21962, 12990, 36983>>,
    <<64792, 38575, 26082, 20551, 62468, 26527, 64697, 5045, 58134, 59270>>,
    <<28413, 49265, 38933, 64102, 19958, 38637, 31767, 26580, 51153, 18817>>,
    <<47880, 35680, 50613, 59209, 7901, 57795, 14260, 3178, 49635, 28178>>,
    <<13105, 4841, 31974, 46140, 39833, 62944, 49897, 25773, 29686, 28611>>,
    <<63485, 15560, 57941, 29054, 60190, 63883, 2168, 30788, 5478, 30481>>,
    <<18336, 31824, 62536, 56931, 1228, 28698, 39010, 30345, 45923, 37398>>,
    <<58624, 55074, 26915, 51889, 18566, 53996, 15907, 35489, 55402, 4038>>,
    <<3956, 37632, 43525, 50360, 1335, 9193, 32081, 56525, 58752, 817>>,
    <<668, 57620, 55850, 61017, 32472, 45173, 8316, 17609, 25916, 16628>>,
    <<32779, 14372, 6262, 11655, 6145, 13154, 23381, 29536, 50763, 13855>>,
    <<56403, 53639, 63681, 36167, 42864, 39676, 17959, 8916, 63606, 13692>>,
    <<20240, 33882, 45084, 2972, 54315, 2076, 6926, 34419, 28694, 36506>>,
    <<43326, 5498, 38150, 14095, 39107, 9420, 18034, 44036, 11014, 6644>>,
    <<3450, 48012, 56275, 8733, 19183, 31753, 4846, 402, 12222, 22337>>,
    <<9838, 54295, 32954, 11778, 42392, 57349, 43010, 55023, 49085, 62697>>,
    <<55608, 14582, 42396, 3579, 10502, 46842, 3432, 2072, 27891, 60748>>,
    <<14824, 48823, 44416, 10199, 62329, 21134, 57916, 35543, 19272, 19254>>,
    <<59064, 35948, 2097, 55306, 39013, 63768, 10235, 53319, 44602, 34975>>,
    <<28887, 11691, 18176, 8804, 36652, 64584, 29, 40655, 9695, 56583>>,
    <<4886, 52686, 50142, 15251, 5448, 18425, 38722, 9501, 14482, 5899>>,
    <<49105, 17198, 14393, 42917, 50710, 13171, 63578, 17268, 27944, 52203>>,
    <<50914, 15733, 11058, 47046, 22922, 11001, 45058, 23139, 30755, 1880>>,
    <<29336, 22819, 34896, 64203, 7196, 39144, 29189, 24878, 2223, 3392>>,
    <<21769, 15853, 49064, 25334, 15278, 57421, 46189, 54977, 20505, 59429>>,
    <<22294, 11023, 37786, 35692, 40860, 44224, 18887, 25583, 26336, 59688>>,
    <<25053, 11683, 25079, 2171, 16715, 61034, 36669, 37343, 29295, 54521>>,
    <<49138, 11980, 64733, 33187, 37550, 23351, 44588, 704, 39281, 18615>>,
    <<8300, 58998, 38397, 4875, 9370, 15321, 44633, 10053, 45333, 55563>>,
    <<28417, 65083, 4753, 8732, 42622, 9918, 26109, 53429, 8488, 38196>>,
    <<32768, 26861, 21133, 21632, 65255, 62253, 63696, 36033, 40430, 60118>>,
    <<54925, 46195, 55773, 16538, 14270, 23743, 64794, 27266, 22019, 54617>>,
    <<9340, 32325, 49410, 13258, 2065, 45826, 49218, 37845, 29537, 60493>>,
    <<17063, 44696, 58465, 25870, 14426, 56879, 34005, 60739, 24448, 57450>>,
    <<56491, 21742, 62719, 17991, 23413, 16518, 14319, 20711, 51518, 27526>>,
    <<26863, 49958, 31952, 21681, 13310, 54364, 15444, 54534, 53995, 64603>>,
    <<18097, 29260, 47856, 23452, 42482, 15123, 55429, 61881, 45621, 12637>>,
    <<34725, 62793, 17135, 47977, 34621, 34762, 13597, 25069, 29369, 35005>>,
    <<43017, 63771, 37829, 38354, 32092, 17608, 41591, 17952, 54510, 53338>>,
    <<2252, 47784, 59693, 55639, 56140, 21496, 10291, 63802, 7878, 21057>>,
    <<36195, 12403, 64613, 15576, 42688, 2819, 10492, 20752, 8239, 34502>>,
    <<17569, 7160, 24007, 26764, 20943, 6546, 47617, 37167, 49706, 23327>>,
    <<37719, 43490, 41373, 26399, 58706, 36912, 36487, 26665, 54877, 51141>>,
    <<53871, 40430, 62985, 57579, 49358, 39726, 58704, 30676, 12433, 62571>>,
    <<59950, 32614, 53159, 27545, 54122, 9615, 45714, 31188, 33403, 29004>>,
    <<8740, 30418, 56779, 8631, 40427, 16149, 57668, 39556, 23173, 40259>>,
    <<7618, 46259, 11051, 64053, 8625, 47286, 49279, 4958, 27570, 25343>>,
    <<42278, 61150, 26966, 20376, 63875, 27213, 10574, 21476, 3530, 18621>>,
    <<26448, 42921, 58431, 35878, 41222, 9394, 38690, 49658, 369, 61090>>,
    <<61279, 61033, 44368, 12951, 45966, 53674, 36129, 6139, 33956, 64332>>,
    <<43330, 15790, 37787, 33544, 6094, 18220, 20149, 11428, 45019, 25898>>,
    <<44234, 28455, 1625, 41771, 6043, 38943, 21346, 6473, 35084, 31748>>,
    <<16983, 2862, 31095, 3753, 59646, 7930, 42706, 41194, 52806, 47110>>,
    <<12791, 13415, 56922, 15132, 16887, 17663, 43291, 62636, 42697, 35994>>,
    <<62238, 10076, 17260, 55691, 24047, 48833, 55462, 42682, 8669, 20404>>,
    <<56221, 11930, 21544, 267, 43242, 33019, 39987, 45834, 51413, 33902>>,
    <<65141, 57221, 262, 24064, 23171, 49656, 30342, 50858, 38887, 20569>>,
    <<25459, 43272, 2070, 29946, 59788, 38974, 59594, 58845, 27040, 57710>>,
    <<7092, 3076, 59439, 24832, 15812, 48720, 58725, 42494, 12618, 30122>>,
    <<51236, 28292, 15844, 29212, 65368, 30850, 4092, 17362, 3967, 61066>>,
    <<54708, 61773, 50291, 51775, 25221, 57801, 56414, 5965, 226, 14518>>,
    <<48321, 3161, 58238, 11878, 4000, 39325, 3620, 47862, 12633, 19565>>,
    <<55703, 27138, 43758, 16513, 65194, 54548, 51097, 53739, 58803, 5310>>,
    <<57696, 35184, 22809, 10319, 14847, 2623, 21965, 45843, 34042, 35478>>,
    <<65144, 25869, 57124, 47829, 51036, 26989, 46056, 58209, 39670, 9492>>,
    <<63460, 11762, 18301, 11041, 6416, 3179, 9709, 27068, 45486, 48136>>,
    <<18715, 20975, 49362, 15062, 47450, 28547, 7319, 34110, 20801, 5504>>,
    <<49556, 48907, 16439, 55718, 1970, 60835, 30924, 55092, 55606, 39722>>,
    <<4480, 7107, 26971, 21059, 5611, 36104, 19817, 27681, 42427, 3125>>,
    <<52466, 50682, 30640, 48317, 11422, 36379, 4869, 17854, 14708, 1157>>,
    <<51325, 46840, 49631, 9659, 54227, 2960, 28492, 52648, 38181, 37300>>,
    <<4772, 44137, 6307, 33203, 55800, 43759, 28146, 32077, 6335, 3180>>,
    <<33745, 21648, 11855, 5071, 64674, 12858, 6983, 36427, 13345, 29638>>,
    <<8619, 31249, 47128, 11466, 15637, 40207, 43520, 22021, 8476, 43229>>,
    <<47584, 36066, 7361, 19791, 61874, 8662, 13346, 8751, 42321, 10430>>,
    <<17626, 34228, 64418, 63824, 14494, 20105, 64486, 22127, 65361, 54259>>,
    <<58091, 31001, 18145, 45127, 38952, 19605, 15284, 27903, 62920, 46136>>,
    <<20355, 49896, 15890, 61306, 22567, 32634, 15872, 8656, 18884, 50524>>,
    <<12967, 19575, 19065, 35543, 3526, 57901, 40109, 845, 33327, 42502>>,
    <<58751, 17843, 31949, 63646, 42162, 21071, 10570, 11505, 41727, 9702>>,
    <<51834, 11974, 11822, 61572, 31611, 44020, 32800, 43551, 43863, 27752>>,
    <<51259, 12656, 15548, 54987, 34341, 47282, 54423, 65461, 52049, 7234>>,
    <<40872, 29131, 5774, 8965, 9883, 48631, 37054, 9573, 7738, 34226>>,
    <<63686, 23557, 1515, 64769, 11283, 49336, 28662, 35209, 47859, 49661>>,
    <<38575, 15518, 6441, 49526, 38108, 11809, 13051, 4169, 47064, 50254>>,
    <<6517, 38824, 42415, 29959, 60734, 30108, 64121, 9059, 56068, 22533>>,
    <<55281, 18951, 50463, 30909, 3658, 5542, 43826, 12988, 23264, 35713>>,
    <<51280, 42389, 18326, 21274, 19510, 28121, 23725, 63968, 21268, 12545>>,
    <<13428, 33851, 64696, 50846, 62850, 62122, 988, 44274, 8042, 15715>>,
    <<47649, 45239, 11860, 36456, 36407, 33224, 11543, 10740, 51582, 23476>>,
    <<62484, 50671, 62473, 25777, 12826, 51200, 51168, 45393, 48847, 46757>>,
    <<58432, 60352, 45770, 1462, 18621, 2610, 27513, 58740, 5278, 39312>>,
    <<8564, 40562, 43883, 12368, 36532, 56372, 50935, 32492, 12054, 32177>>,
    <<51580, 15944, 9296, 48403, 64491, 7872, 56745, 38571, 24099, 64622>>,
    <<59293, 31065, 13644, 44773, 42181, 7159, 24691, 33178, 1467, 20663>>,
    <<8243, 42745, 51447, 41767, 63320, 64991, 31461, 35106, 31174, 26280>>,
    <<59440, 424, 32060, 29003, 58522, 19948, 19414, 7353, 28853, 16814>>,
    <<62518, 21593, 63277, 18947, 33155, 64350, 61807, 23298, 8136, 44971>>,
    <<7225, 15543, 18572, 62187, 43573, 61835, 2622, 33095, 2196, 2615>>,
    <<21965, 4342, 39035, 63871, 16026, 31321, 44984, 47160, 14976, 42444>>,
    <<33823, 20270, 6494, 24326, 39780, 52191, 38690, 33023, 48652, 32846>>,
    <<28612, 47392, 15358, 63529, 12586, 54678, 62421, 13674, 36964, 34976>>,
    <<9109, 36763, 29985, 54330, 28764, 8865, 24712, 30100, 64768, 59047>>,
    <<19546, 49780, 23774, 1225, 325, 62677, 16938, 25491, 30883, 35020>>,
    <<36421, 17866, 56258, 53967, 12897, 65277, 16294, 17387, 21111, 31205>>,
    <<44831, 36492, 3538, 10626, 14281, 64588, 407, 37012, 18906, 23670>>,
    <<1638, 56472, 40224, 49960, 11750, 25572, 5788, 57340, 34694, 18379>>,
    <<58800, 49798, 64966, 25755, 28674, 36773, 63512, 40400, 21566, 65094>>,
    <<64646, 49895, 50575, 1055, 50340, 63447, 55351, 13242, 12121, 22417>>,
    <<62832, 5688, 21186, 48854, 35106, 13718, 32815, 18595, 43072, 8951>>,
    <<43128, 62201, 4964, 10889, 30233, 32371, 28243, 43122, 62775, 44809>>,
    <<2340, 14860, 3073, 46872, 59518, 36056, 1415, 6733, 5096, 53002>>,
    <<51104, 35676, 38647, 27773, 47148, 34545, 15761, 1009, 32706, 7170>>,
    <<22152, 20517, 1301, 27483, 8141, 32833, 36273, 1519, 54055, 3680>>,
    <<49456, 18769, 28712, 48270, 64308, 10052, 53049, 41522, 11878, 30038>>,
    <<28993, 13181, 23203, 57439, 11847, 31101, 61156, 4800, 61349, 62769>>,
    <<12584, 35993, 6040, 6484, 18826, 28575, 10751, 40793, 48829, 29003>>,
    <<27067, 44409, 7332, 19657, 1955, 4822, 24459, 10334, 13414, 26692>>,
    <<35903, 24751, 50124, 29312, 27466, 27320, 53387, 63555, 59749, 22807>>,
    <<55834, 39675, 13251, 55414, 53891, 59510, 44684, 60250, 20415, 3051>>,
    <<32003, 19071, 4193, 49035, 42689, 42112, 2222, 34068, 31571, 25480>>,
    <<54809, 59265, 59098, 18359, 16140, 5882, 20241, 36004, 33548, 17139>>,
    <<47433, 14095, 50917, 35687, 27430, 13486, 43167, 27094, 32325, 61885>>,
    <<9376, 29389, 55142, 54343, 46769, 57607, 1693, 40724, 585, 3867>>,
    <<59882, 47710, 43809, 52446, 60701, 26500, 15866, 40706, 20041, 11025>>,
    <<25754, 11208, 64361, 187, 22412, 56407, 36849, 53953, 19541, 51263>>,
    <<3759, 41291, 22755, 57173, 18467, 13709, 3732, 54314, 62139, 8903>>,
    <<62970, 12926, 18837, 17189, 41802, 41454, 44248, 20699, 23248, 3244>>,
    <<37540, 42369, 13365, 4841, 63780, 52445, 31979, 12791, 27024, 39739>>,
    <<47383, 54828, 17972, 22641, 23756, 13409, 36517, 30229, 54440, 16498>>,
    <<30228, 51943, 36432, 28529, 13763, 23625, 34, 17089, 12125, 22538>>,
    <<58778, 47837, 40989, 50005, 13281, 59218, 50813, 39658, 37146, 51181>>,
    <<12461, 49857, 49881, 59443, 31577, 61526, 6863, 4928, 19345, 51809>>,
    <<44570, 6777, 2111, 42018, 44689, 35549, 59725, 48643, 20493, 41962>>,
    <<24138, 15581, 30036, 12243, 61065, 29074, 1338, 47820, 61843, 6112>>,
    <<29272, 63161, 49599, 6769, 12821, 48272, 52371, 4006, 23593, 59044>>,
    <<9050, 1026, 19974, 27372, 28433, 24014, 62383, 7120, 34559, 62536>>,
    <<31073, 1497, 21137, 12679, 23807, 49441, 60745, 65383, 26806, 14206>>,
    <<46533, 4497, 4405, 46094, 6026, 32790, 38491, 26140, 38030, 27892>>,
    <<15622, 59728, 56664, 44007, 14037, 29720, 21912, 2734, 30172, 263>>,
    <<29709, 47525, 19878, 36079, 29280, 50076, 51026, 51264, 56880, 1093>>,
    <<3567, 42595, 1851, 44933, 28577, 27847, 41809, 60545, 18675, 49514>>,
    <<37013, 7734, 34403, 43277, 14603, 60211, 28295, 31308, 22275, 35231>>,
    <<46970, 51373, 33143, 52401, 51400, 11452, 3391, 16901, 58088, 16256>>,
    <<63052, 65080, 3918, 33423, 25393, 8923, 61826, 63603, 24238, 59793>>,
    <<25108, 62722, 27600, 44061, 23850, 3280, 39465, 35227, 16386, 36746>>,
    <<31435, 25243, 48350, 27746, 56307, 54266, 49822, 20288, 6724, 29148>>,
    <<19073, 1359, 52149, 65177, 8947, 19067, 20609, 40318, 18349, 29373>>,
    <<60174, 24, 31152, 20359, 23774, 7499, 26667, 29844, 24987, 40391>>,
    <<55959, 15391, 877, 41205, 32214, 23307, 32085, 47273, 342, 34605>>,
    <<42086, 5942, 3840, 40927, 30786, 38486, 21169, 32477, 23726, 53631>>,
    <<13346, 53576, 24145, 8351, 33575, 43820, 2074, 26730, 49067, 57891>>,
    <<49749, 32521, 9188, 40344, 11925, 24631, 48184, 35652, 28075, 49133>>,
    <<42588, 49949, 9392, 23871, 36086, 7679, 36143, 49576, 57073, 26739>>,
    <<16014, 11942, 62665, 37980, 18262, 29189, 8685, 52071, 50857, 12980>>,
    <<9325, 2010, 46366, 37202, 1636, 49941, 47682, 41027, 7775, 6990>>,
    <<38191, 44342, 52107, 46047, 43670, 33765, 51124, 10133, 50831, 49759>>,
    <<58662, 16609, 10250, 2750, 22935, 23131, 14615, 49102, 8429, 10459>>,
    <<65000, 44301, 34831, 23799, 56882, 59647, 40362, 16699, 14000, 40597>>,
    <<56654, 45448, 6985, 6722, 29597, 3989, 23099, 63324, 35658, 13929>>,
    <<7892, 57439, 10630, 52340, 16246, 15087, 62328, 27697, 986, 50273>>,
    <<44350, 38685, 33409, 53021, 58294, 60152, 51642, 60995, 55867, 57432>>,
    <<17005, 38768, 14159, 31602, 34355, 10158, 30007, 48793, 60422, 27693>>,
    <<9610, 40428, 28759, 29876, 26347, 30599, 4013, 63443, 15234, 63888>>,
    <<64827, 34766, 27870, 59895, 28825, 37552, 37401, 55042, 58593, 39890>>,
    <<34052, 19467, 2553, 18431, 44853, 11721, 8340, 18457, 23722, 32313>>,
    <<46150, 38537, 25314, 16996, 10857, 33696, 26897, 57625, 2588, 27165>>,
    <<9427, 7782, 48318, 28762, 37481, 60702, 3507, 9351, 5671, 28142>>,
    <<27498, 19762, 32207, 33606, 46985, 20485, 25895, 62125, 6983, 29272>>,
    <<26683, 15879, 57760, 57445, 65401, 43044, 33565, 25864, 61086, 19459>>,
    <<23194, 1271, 39663, 10541, 62996, 195, 14643, 17559, 65363, 9608>>,
    <<12890, 57841, 9473, 22738, 2676, 7061, 50232, 31715, 55450, 33671>>,
    <<51560, 31291, 43300, 55851, 42425, 32348, 24712, 25353, 40016, 58434>>,
    <<45355, 57159, 38696, 23261, 20433, 25353, 52001, 44170, 35498, 55151>>,
    <<17807, 33060, 13720, 34203, 59357, 22537, 27731, 37449, 57974, 53400>>,
    <<64476, 3469, 47091, 27212, 28054, 52453, 40880, 64236, 38431, 20818>>,
    <<25549, 31582, 11155, 11837, 37399, 7049, 14023, 5166, 34169, 27697>>,
    <<5800, 24133, 41179, 6258, 45477, 57646, 47360, 49413, 56136, 57879>>,
    <<30723, 12947, 8028, 33540, 60699, 61221, 26132, 48843, 26949, 61287>>,
    <<53257, 57595, 22082, 25905, 52674, 52019, 58914, 61837, 46089, 9858>>,
    <<44105, 48166, 32714, 20573, 49478, 55882, 2882, 6286, 9707, 10501>>,
    <<11063, 29800, 53082, 24833, 31399, 44594, 35124, 25216, 64455, 58551>>,
    <<47226, 4804, 31532, 15241, 47412, 7737, 24393, 35265, 41770, 38816>>,
    <<23343, 14771, 1013, 8251, 24363, 16778, 51334, 50133, 55089, 54202>>,
    <<16687, 40063, 11447, 47858, 51220, 64488, 8397, 34431, 63128, 63739>>,
    <<4428, 62228, 50730, 35355, 44693, 29115, 13085, 3558, 4563, 57880>>,
    <<14349, 61000, 65344, 3503, 51856, 45542, 19219, 9082, 2628, 53897>>,
    <<45398, 29517, 34054, 8401, 54570, 20466, 50340, 50793, 34240, 48169>>,
    <<46289, 42776, 45946, 4738, 22692, 15085, 18557, 29240, 56678, 19364>>,
    <<32074, 39148, 13688, 271, 35310, 40689, 51191, 61478, 46737, 3082>>,
    <<50614, 48735, 39590, 56247, 42935, 6805, 47129, 17199, 36122, 57528>>,
    <<61518, 49092, 51587, 18550, 62306, 35565, 7103, 53224, 25663, 5185>>,
    <<21903, 52415, 5173, 15885, 20617, 58748, 10301, 10832, 20609, 9085>>,
    <<8435, 31858, 28848, 63943, 4106, 17037, 5863, 12973, 59274, 7123>>,
    <<46410, 11129, 63756, 9081, 15160, 11361, 26471, 50329, 14475, 53300>>,
    <<3374, 27739, 37699, 41820, 33694, 62558, 100, 20073, 13104, 30348>>,
    <<14155, 41141, 31042, 16578, 57184, 49452, 63127, 40258, 59044, 23870>>,
    <<7209, 12510, 29338, 43222, 29565, 65161, 12696, 1482, 41703, 56444>>,
    <<54159, 1895, 29216, 16459, 50917, 12242, 26724, 38213, 30839, 43377>>,
    <<18420, 38229, 34445, 64362, 29235, 40803, 55719, 19590, 31624, 2547>>,
    <<8240, 24710, 36174, 59919, 21047, 38346, 42101, 1279, 30118, 10704>>,
    <<64360, 22058, 37042, 9204, 22765, 10550, 16907, 10114, 33002, 47919>>,
    <<60320, 51742, 36261, 37216, 14226, 26540, 57312, 54207, 34619, 22849>>,
    <<2911, 32425, 7959, 34899, 39112, 1331, 13373, 27931, 32428, 23707>>,
    <<19055, 37094, 42623, 19195, 15008, 19996, 16659, 22744, 11798, 10679>>,
    <<33331, 18449, 28858, 53133, 17822, 42153, 48486, 58723, 12426, 46381>>,
    <<44310, 33378, 6571, 43899, 31503, 49687, 20300, 41050, 26993, 42056>>,
    <<56649, 14541, 34735, 48299, 56812, 60699, 23626, 54150, 24063, 17243>>,
    <<29046, 31573, 4702, 62356, 34154, 45622, 44421, 37636, 43498, 36135>>,
    <<39495, 48217, 13078, 40373, 61859, 33271, 225, 51553, 56785, 54058>>,
    <<45430, 331, 6303, 17633, 58280, 3842, 36437, 32156, 45351, 13721>>,
    <<20776, 11951, 26347, 11997, 7558, 53270, 8551, 52208, 1047, 32105>>,
    <<54612, 7906, 47289, 11901, 44359, 9505, 49592, 39700, 5610, 6571>>,
    <<548, 18986, 56933, 595, 37160, 37910, 6786, 11306, 30304, 45722>>,
    <<61893, 1018, 13833, 37823, 61086, 45712, 28874, 30936, 61424, 10052>>,
    <<11449, 19623, 34136, 23239, 33973, 28312, 43455, 64856, 59819, 41265>>,
    <<19489, 18778, 42576, 41772, 2299, 269, 43941, 27194, 32283, 19113>>,
    <<4211, 2640, 35039, 24561, 13889, 42668, 44303, 65446, 57499, 46438>>,
    <<52884, 24387, 28556, 65413, 20636, 44397, 51315, 59792, 18664, 60131>>,
    <<6054, 42276, 20008, 28280, 14087, 21324, 35718, 32074, 58798, 48943>>,
    <<57799, 64740, 22706, 64747, 25245, 19694, 3736, 37312, 22616, 6492>>,
    <<4638, 30498, 11061, 46426, 62622, 8039, 25770, 16860, 33570, 29389>>,
    <<37791, 40131, 16112, 7436, 34715, 14747, 50532, 17074, 14674, 15165>>,
    <<47569, 38959, 17595, 5544, 51322, 57998, 27739, 18143, 63126, 18560>>,
    <<49681, 36544, 13290, 28919, 56882, 33569, 38149, 14403, 43652, 50450>>,
    <<5049, 27127, 35268, 109, 46851, 4330, 34352, 9048, 10920, 42596>>,
    <<9921, 20740, 56746, 52232, 42384, 30756, 11653, 63058, 12983, 8464>>,
    <<34046, 39499, 25281, 42776, 9251, 6513, 61773, 8597, 52395, 43767>>,
    <<64544, 1619, 40605, 48296, 26906, 27653, 39053, 56111, 20412, 64859>>,
    <<49335, 28674, 64182, 14160, 49871, 2657, 46036, 19091, 40798, 29349>>,
    <<18311, 22538, 24934, 14299, 57723, 13812, 43876, 47461, 6069, 812>>,
    <<15238, 46945, 22826, 23145, 23433, 52800, 13806, 55133, 40000, 6520>>,
    <<28678, 57076, 62797, 1088, 27, 11849, 64404, 29525, 57499, 6318>>,
    <<61971, 36914, 2201, 1577, 52346, 13132, 32423, 17623, 56042, 35139>>,
    <<32535, 48461, 11851, 46984, 11549, 43070, 32146, 53972, 49255, 53126>>,
    <<23433, 37890, 29482, 40296, 53142, 41644, 25130, 2051, 59260, 64413>>,
    <<16911, 18585, 17973, 44302, 57088, 40625, 26336, 24184, 28022, 62564>>,
    <<12478, 41589, 19440, 9025, 11065, 43732, 41697, 10563, 31867, 62034>>,
    <<9264, 6241, 44875, 29043, 44477, 19635, 17502, 27238, 47573, 10924>>,
    <<23916, 1155, 2479, 55309, 62521, 26061, 32324, 40596, 60679, 609>>,
    <<29136, 51124, 1369, 27598, 44233, 1669, 30839, 12308, 59271, 43695>>,
    <<55896, 51893, 3719, 59969, 40355, 33078, 57851, 48835, 29965, 57332>>,
    <<28849, 35677, 18410, 54911, 64425, 6574, 50983, 41225, 64342, 56780>>,
    <<52932, 10894, 16217, 29732, 10996, 7107, 50698, 22847, 39997, 48730>>,
    <<48723, 30314, 3880, 52070, 558, 42158, 5842, 7363, 64569, 53785>>,
    <<48669, 28544, 37372, 16089, 18270, 25024, 588, 41990, 60014, 42809>>,
    <<62781, 33194, 39522, 41219, 25242, 18306, 45481, 58095, 62076, 3114>>,
    <<51061, 41908, 12628, 65380, 39544, 26506, 12234, 10688, 24979, 25754>>,
    <<4080, 43239, 11783, 47795, 50399, 28209, 34554, 13845, 35703, 24167>>,
    <<4125, 19222, 59431, 40714, 63895, 40635, 45502, 53345, 52177, 43391>>,
    <<33565, 28591, 38003, 6315, 55603, 16360, 63394, 6295, 28045, 45797>>,
    <<22808, 40687, 52995, 42897, 62396, 10329, 58920, 16482, 2264, 21022>>,
    <<37766, 2843, 46184, 20603, 11645, 15265, 8991, 64973, 26199, 32248>>,
    <<63798, 19581, 18092, 10864, 3809, 42638, 24366, 18046, 51897, 48293>>,
    <<31839, 25910, 49354, 28383, 40794, 13416, 24815, 36637, 26177, 55898>>,
    <<22919, 21761, 13841, 35411, 25260, 30854, 53935, 55421, 920, 40014>>,
    <<37471, 10134, 21319, 58927, 22744, 41788, 58689, 46911, 7230, 25347>>,
    <<53186, 59336, 6454, 9185, 59424, 29382, 54586, 50543, 63881, 59692>>,
    <<18695, 8568, 12806, 54758, 14339, 2898, 42966, 1966, 57182, 46726>>,
    <<34661, 62122, 24062, 2156, 60936, 26381, 46271, 49724, 57183, 34457>>,
    <<17794, 11414, 41064, 40639, 20047, 51827, 34550, 1315, 6465, 52507>>,
    <<56613, 31421, 56715, 62368, 36496, 15498, 10514, 4027, 10614, 13449>>,
    <<32986, 60753, 43164, 39446, 16904, 17844, 5266, 1062, 25947, 10239>>,
    <<34121, 24493, 50135, 61160, 60991, 49579, 33234, 36839, 25349, 22815>>,
    <<41808, 59227, 28313, 57755, 64351, 39790, 39546, 14744, 46930, 24904>>,
    <<47500, 3961, 7570, 49682, 20145, 25628, 59189, 25753, 50171, 637>>,
    <<27602, 60114, 49875, 41262, 42775, 37956, 50904, 36680, 56783, 8594>>,
    <<64035, 13872, 51803, 60977, 14725, 22115, 37913, 28824, 31276, 25561>>,
    <<33274, 6281, 55185, 18435, 40658, 63396, 32000, 11597, 35921, 27681>>,
    <<62153, 54428, 18372, 40395, 21960, 48490, 18630, 32000, 26026, 39352>>,
    <<18355, 23311, 51865, 51412, 12591, 13923, 49157, 48587, 25974, 52931>>,
    <<4828, 45211, 9169, 1701, 25199, 14085, 49279, 35682, 36889, 42813>>,
    <<51539, 57350, 64247, 16557, 63104, 2456, 17583, 53553, 49463, 15463>>,
    <<58193, 44166, 27719, 52098, 55006, 60782, 30170, 57409, 27803, 12524>>,
    <<37090, 4271, 31469, 5125, 51374, 56204, 44533, 27240, 25330, 50312>>,
    <<9874, 37739, 8851, 1635, 49396, 41511, 11491, 31215, 11868, 8038>>,
    <<30659, 3986, 52915, 53289, 21325, 42340, 15641, 12126, 32547, 1367>>,
    <<19959, 44533, 5635, 25308, 24726, 59833, 14224, 34619, 17073, 13177>>,
    <<36415, 13340, 22894, 50936, 28597, 56969, 48651, 1015, 41705, 41451>>,
    <<25673, 40385, 57589, 19777, 6597, 65469, 44452, 11732, 51791, 8153>>,
    <<22442, 13620, 43121, 10459, 51061, 50492, 28152, 31378, 29107, 5242>>,
    <<3661, 42004, 28937, 60517, 64289, 19180, 49259, 19573, 60378, 40923>>,
    <<56687, 65192, 20775, 62427, 60806, 40032, 27078, 34694, 55010, 51451>>,
    <<31195, 47564, 21495, 25468, 18042, 36058, 56129, 7841, 40522, 40791>>,
    <<42593, 39882, 45716, 36662, 17347, 31061, 32127, 23155, 594, 51313>>,
    <<17279, 53897, 5421, 61942, 10464, 25805, 15820, 20948, 55847, 13523>>,
    <<2162, 31571, 43688, 37463, 17059, 28375, 31585, 2515, 57742, 6692>>,
    <<1895, 42593, 42001, 13128, 60263, 64125, 6314, 230, 15116, 9682>>,
    <<8180, 55558, 31708, 50888, 25564, 7574, 13682, 36535, 18816, 36516>>,
    <<21210, 62978, 61399, 1478, 25926, 37750, 40886, 54851, 43870, 57534>>,
    <<1167, 56017, 4387, 43040, 47654, 53079, 25784, 62828, 48922, 58847>>,
    <<14128, 10005, 56254, 32511, 45281, 12910, 36380, 60216, 33209, 4353>>,
    <<39557, 51091, 27306, 58654, 51829, 10958, 33379, 6555, 46356, 11803>>,
    <<23948, 23357, 1256, 764, 20734, 5668, 20019, 9184, 31097, 50181>>,
    <<34921, 32485, 43060, 29061, 30256, 14466, 15453, 40298, 46269, 36175>>,
    <<8766, 62638, 9348, 4944, 44412, 43939, 56193, 239, 51501, 15809>>,
    <<2222, 51800, 4106, 55694, 55032, 37290, 13306, 2859, 28495, 64630>>,
    <<35045, 16898, 44404, 28438, 60608, 51748, 47193, 60474, 8548, 55206>>,
    <<34479, 56608, 10071, 11015, 34371, 53564, 74, 12820, 59547, 47606>>,
    <<39199, 49908, 12667, 31129, 43775, 35329, 47890, 1661, 10469, 56898>>,
    <<51658, 46657, 31407, 59968, 24716, 58487, 10857, 23410, 1406, 40988>>,
    <<14897, 35602, 15906, 52028, 37384, 23016, 61814, 11365, 13355, 47273>>,
    <<61525, 40795, 43575, 37271, 59983, 57432, 49936, 22936, 16026, 42772>>,
    <<3739, 6964, 31494, 36110, 9203, 8904, 23884, 45556, 6201, 25160>>,
    <<48468, 34250, 17489, 43056, 64913, 50763, 8576, 19068, 46891, 24373>>,
    <<20513, 15204, 44342, 61108, 44783, 65054, 49080, 57082, 41211, 46261>>,
    <<43854, 25674, 56087, 9183, 50255, 4092, 34255, 4944, 199, 19383>>,
    <<8765, 59187, 19268, 63447, 4822, 33229, 24647, 34599, 33863, 8038>>,
    <<25678, 53274, 40321, 41028, 19134, 40484, 38067, 56342, 11344, 57912>>,
    <<48200, 11866, 38163, 29894, 35923, 9448, 26295, 35120, 54227, 6292>>,
    <<28778, 23498, 54798, 18813, 46967, 32889, 50706, 55886, 46333, 30156>>,
    <<46900, 19056, 3352, 23951, 14694, 25461, 54019, 30568, 61869, 30698>>,
    <<59647, 50539, 34356, 58384, 29521, 38605, 25228, 22730, 57757, 7035>>,
    <<1015, 8155, 18776, 22488, 59918, 40692, 44729, 29981, 182, 29144>>,
    <<6139, 4935, 38170, 3013, 55161, 54766, 6421, 43294, 12590, 57007>>,
    <<27890, 9746, 3652, 20446, 8336, 49134, 8675, 33978, 6032, 62953>>,
    <<61552, 26708, 6189, 40926, 48399, 56718, 35152, 2513, 38434, 23125>>,
    <<45546, 61414, 43656, 38355, 21710, 9013, 37537, 57889, 5470, 12369>>,
    <<904, 18491, 12282, 3131, 34438, 17936, 7010, 17105, 6888, 31232>>,
    <<8073, 7879, 5638, 21102, 55179, 41494, 49398, 14770, 41949, 6286>>,
    <<43162, 42685, 59179, 41222, 503, 11326, 19517, 62628, 53467, 32146>>,
    <<46813, 53274, 52403, 64326, 12203, 20300, 39405, 40400, 34171, 20657>>,
    <<7129, 51733, 45887, 6274, 14079, 49687, 37357, 9528, 30799, 4663>>,
    <<29417, 47285, 24216, 19739, 10176, 43007, 31140, 5106, 4199, 7842>>,
    <<55865, 18956, 17636, 58574, 58630, 47672, 54259, 25028, 22917, 15373>>,
    <<57715, 36558, 50111, 22783, 22924, 30654, 61758, 48588, 64946, 31570>>,
    <<35625, 9024, 18833, 10187, 42634, 49511, 56703, 24846, 60893, 62573>>,
    <<57848, 50878, 61898, 59470, 46187, 36219, 31784, 62296, 25761, 46811>>,
    <<55306, 39368, 45591, 2990, 40678, 22619, 50979, 37659, 16836, 64112>>,
    <<55770, 37086, 19677, 38836, 3858, 21236, 40681, 34195, 13336, 35921>>,
    <<35870, 64968, 32525, 61513, 19563, 8494, 53037, 47824, 42794, 57661>>,
    <<52506, 10443, 32328, 8814, 60668, 21327, 10331, 20001, 29919, 17035>>,
    <<22328, 61888, 21556, 37026, 36695, 9115, 20337, 13182, 19234, 54321>>,
    <<13980, 58237, 45329, 14414, 8345, 633, 64470, 53748, 62094, 25894>>,
    <<11378, 23903, 32460, 1518, 37177, 41213, 31851, 32373, 46370, 58125>>,
    <<48278, 52731, 1774, 54583, 48963, 46343, 63982, 15564, 22969, 27299>>,
    <<18158, 42331, 59858, 33182, 57176, 24416, 52957, 4855, 55489, 878>>,
    <<44109, 36194, 63161, 4237, 38401, 8588, 34262, 5578, 9580, 10456>>,
    <<49863, 58550, 52696, 35965, 44873, 14264, 56114, 15567, 22414, 25414>>,
    <<38409, 55398, 11385, 17438, 36600, 59943, 61430, 23718, 35981, 13765>>,
    <<5189, 24195, 30854, 38589, 44772, 36861, 18518, 32840, 41680, 15231>>,
    <<2846, 60302, 557, 18559, 2585, 20428, 12103, 4434, 10767, 37877>>,
    <<52851, 13321, 8473, 57486, 10469, 7603, 48589, 10219, 56609, 15770>>,
    <<37922, 16055, 32323, 49540, 7384, 32901, 4317, 63566, 5512, 1050>>,
    <<29272, 59384, 61654, 51671, 15558, 1046, 12291, 24358, 14233, 37528>>,
    <<93, 26742, 31326, 36048, 33385, 35713, 4619, 62488, 13411, 28734>>,
    <<39319, 31159, 60235, 30871, 12572, 25835, 42050, 7166, 42711, 56233>>,
    <<19760, 4777, 23483, 2099, 32526, 53002, 55839, 28578, 18660, 58593>>,
    <<12082, 1618, 39825, 50839, 46720, 27998, 11437, 65499, 49858, 31607>>,
    <<39849, 14651, 41772, 28360, 11166, 11761, 53517, 43982, 16491, 56446>>,
    <<8133, 55356, 37076, 45775, 7458, 25458, 37005, 49565, 21602, 56411>>,
    <<57987, 27122, 25275, 34234, 17409, 78, 19901, 64460, 18496, 9286>>,
    <<42916, 31445, 62053, 16415, 1801, 33422, 35142, 3213, 56962, 56813>>,
    <<10007, 3998, 34709, 63705, 49399, 23631, 37482, 63106, 61355, 44467>>,
    <<2448, 63044, 1127, 33996, 15731, 10208, 1752, 39549, 53844, 48161>>,
    <<27378, 44281, 5201, 64862, 12906, 2249, 51799, 888, 33934, 23019>>,
    <<49455, 25830, 8337, 3489, 33679, 37128, 52354, 43680, 26127, 14440>>,
    <<11708, 52319, 37312, 29346, 17513, 23407, 52939, 57749, 13102, 615>>,
    <<65285, 44469, 46571, 9294, 5493, 4043, 40313, 56018, 35268, 4120>>,
    <<14808, 2416, 14787, 29729, 46014, 33350, 56837, 33639, 31732, 6349>>,
    <<61542, 62820, 52980, 26155, 28245, 14379, 60017, 35862, 26465, 55257>>,
    <<32754, 13880, 41617, 50735, 43286, 5237, 34892, 10030, 55910, 33302>>,
    <<57199, 5975, 39007, 9641, 20418, 11980, 57709, 41463, 35765, 31289>>,
    <<23611, 10774, 33249, 44547, 18396, 15078, 36145, 42541, 52478, 37895>>,
    <<49040, 30426, 42380, 37323, 26033, 10575, 43149, 24629, 37787, 17942>>,
    <<24845, 22978, 37143, 1992, 10398, 55527, 64912, 38048, 29886, 40984>>,
    <<61462, 40125, 24798, 6050, 4698, 28609, 20652, 61544, 55705, 25182>>,
    <<34016, 47792, 46008, 60834, 45982, 32130, 60086, 42942, 26681, 36183>>,
    <<26557, 11246, 29234, 29719, 7406, 14835, 32229, 36051, 42267, 6824>>,
    <<23455, 15737, 21412, 54632, 19344, 15594, 36529, 2560, 58862, 18297>>,
    <<54614, 28291, 3019, 2896, 25688, 35508, 46740, 40699, 29616, 34380>>,
    <<38240, 32653, 31506, 59033, 46002, 27523, 8097, 62498, 770, 47645>>,
    <<37543, 58347, 43989, 44208, 23928, 44284, 7255, 8603, 26077, 48897>>,
    <<35550, 81, 5184, 32651, 64, 37400, 2778, 19947, 37075, 50178>>,
    <<38457, 36072, 18395, 24740, 28856, 46382, 50372, 20752, 55550, 26663>>,
    <<5727, 23820, 61270, 4344, 25827, 55470, 43063, 4465, 2693, 6006>>,
    <<10227, 37483, 46055, 36242, 37567, 12560, 5675, 27332, 34280, 39611>>,
    <<17487, 12639, 31310, 36723, 20001, 4527, 28520, 52849, 31899, 45753>>,
    <<28908, 32572, 23282, 58830, 57242, 29262, 36456, 34709, 23511, 6721>>,
    <<7288, 7523, 51488, 2589, 24989, 18888, 63493, 18530, 3719, 5635>>,
    <<39284, 38376, 25610, 15825, 53357, 32375, 42133, 14105, 35137, 48070>>,
    <<50649, 13620, 25691, 23266, 27035, 26197, 38137, 63958, 22253, 46999>>,
    <<58022, 8271, 24450, 45065, 22007, 33570, 43769, 50713, 29314, 26425>>,
    <<59225, 40567, 39264, 39314, 56523, 138, 13461, 57782, 51086, 46162>>,
    <<49927, 32357, 32438, 42769, 22526, 10588, 41623, 24043, 3330, 1002>>,
    <<3828, 47832, 31808, 41583, 34005, 18092, 12291, 41187, 46063, 34396>>,
    <<45854, 2455, 13247, 48821, 54368, 48678, 64340, 26711, 40227, 63094>>,
    <<4560, 2996, 24010, 23008, 41819, 63426, 62463, 10983, 58436, 43411>>,
    <<725, 9838, 36653, 28771, 20736, 13793, 45296, 28401, 13650, 58179>>,
    <<60621, 45028, 31179, 12779, 29005, 57283, 47701, 3930, 20417, 37373>>,
    <<2289, 58237, 21066, 43014, 60034, 33368, 19969, 2891, 24057, 64327>>,
    <<11437, 40309, 4343, 64989, 28377, 63518, 21763, 34961, 8409, 35753>>,
    <<15111, 53264, 29839, 51009, 57238, 46932, 832, 51493, 43442, 58144>>,
    <<51272, 8857, 711, 12701, 51870, 58069, 8072, 54210, 23526, 10645>>,
    <<50332, 9458, 15395, 33258, 9204, 45248, 59101, 31121, 17578, 36897>>,
    <<28201, 12166, 36182, 46445, 1631, 16991, 27781, 18267, 50918, 32990>>,
    <<46814, 15086, 51798, 11917, 43564, 13363, 56213, 64239, 21393, 33163>>,
    <<19861, 5668, 40246, 33479, 56691, 8272, 47825, 51984, 26121, 43191>>,
    <<38850, 44085, 6368, 1399, 38936, 58133, 57817, 27669, 40992, 9978>>,
    <<28074, 21084, 54459, 8135, 23621, 30740, 14850, 1289, 13110, 62608>>,
    <<37645, 41455, 40972, 10259, 25334, 55800, 21039, 20845, 15132, 28559>>,
    <<43880, 38119, 64366, 9595, 52424, 20428, 61793, 16728, 24816, 25066>>,
    <<46455, 35977, 6826, 46756, 27688, 670, 27627, 38769, 50297, 34791>>,
    <<52658, 44277, 55758, 1687, 41772, 13783, 18817, 38518, 7894, 58438>>,
    <<62704, 48559, 66, 44205, 36353, 5188, 8568, 47118, 13087, 17312>>,
    <<32965, 56389, 40813, 53191, 62081, 60927, 49625, 7274, 7206, 58403>>,
    <<1938, 37330, 5684, 1967, 1174, 52907, 44030, 42267, 40225, 26336>>,
    <<59058, 17920, 18210, 2930, 60073, 15405, 622, 27845, 34838, 56741>>,
    <<5826, 63127, 13015, 19805, 24048, 36940, 17475, 43587, 26649, 46705>>,
    <<37270, 49009, 49681, 52274, 44922, 11776, 22828, 1450, 20146, 222>>,
    <<26294, 9125, 42650, 2999, 19050, 18251, 15098, 28118, 6832, 38782>>,
    <<27560, 32206, 40649, 11663, 63408, 28756, 50300, 43693, 54707, 42245>>,
    <<40491, 51566, 17499, 49085, 3796, 1419, 17415, 31489, 40849, 30311>>,
    <<34715, 54484, 7484, 50138, 11671, 53973, 30957, 28303, 44559, 21246>>,
    <<33797, 53583, 15510, 49921, 25090, 56128, 35914, 1561, 916, 19155>>,
    <<44939, 9546, 1838, 24154, 44653, 35447, 39355, 14469, 50347, 12372>>,
    <<51110, 26361, 44099, 11720, 5226, 7351, 47423, 41422, 13016, 24876>>,
    <<46520, 1359, 22917, 32786, 110, 14089, 55416, 56413, 18556, 5664>>,
    <<61840, 22170, 2158, 2442, 36707, 37359, 49726, 25706, 54182, 58065>>,
    <<29495, 12991, 28937, 57083, 58949, 63632, 31737, 24254, 37615, 63298>>,
    <<30324, 3047, 35058, 15468, 15134, 4998, 41854, 529, 62351, 36587>>,
    <<63716, 32970, 3569, 36948, 31179, 17193, 19893, 50075, 45491, 40177>>,
    <<43907, 47894, 58303, 40337, 52529, 57528, 6869, 22766, 5262, 52066>>,
    <<28601, 41218, 29243, 57970, 21222, 16911, 19399, 21627, 58158, 16397>>,
    <<14387, 45313, 62514, 49215, 41958, 13018, 30165, 28731, 22375, 43278>>,
    <<8045, 40690, 47933, 60395, 51049, 14278, 48468, 8984, 14797, 49977>>,
    <<13179, 22028, 37484, 1974, 31294, 25773, 54050, 17556, 47190, 33421>>,
    <<59998, 8860, 33938, 32097, 34037, 59651, 626, 44870, 55706, 54786>>,
    <<3554, 27644, 18750, 42674, 52680, 1159, 43247, 58486, 49570, 63757>>,
    <<22830, 59001, 35926, 19786, 48101, 59002, 61819, 57218, 45562, 43775>>,
    <<29134, 20488, 41106, 4642, 14116, 49991, 42706, 17245, 1947, 31530>>,
    <<55076, 55967, 24322, 35419, 62928, 3864, 15612, 60531, 2084, 47867>>,
    <<56769, 35852, 32290, 13363, 9421, 32317, 57480, 1362, 22706, 48842>>,
    <<17955, 23347, 30182, 48134, 31168, 19654, 1473, 46233, 50759, 30149>>,
    <<29236, 16888, 59534, 28393, 2266, 39884, 10446, 3893, 62585, 28481>>,
    <<58652, 6948, 59783, 5717, 24587, 63952, 40904, 33529, 51753, 21693>>,
    <<39308, 5988, 43261, 2901, 23096, 59225, 24397, 19464, 53652, 55752>>,
    <<29565, 33756, 35090, 46976, 49539, 34430, 8666, 61701, 59160, 7130>>,
    <<15371, 45076, 57508, 27760, 2835, 50449, 37607, 2298, 28263, 35546>>,
    <<26475, 19505, 52588, 24747, 21198, 41704, 49344, 45628, 12965, 28672>>,
    <<59053, 20574, 51117, 60910, 7168, 4520, 59554, 55847, 57605, 55137>>,
    <<22689, 55099, 39930, 10889, 31798, 61089, 10933, 22978, 7206, 60717>>,
    <<49433, 8879, 4187, 34810, 54146, 64854, 28829, 56965, 26026, 20449>>,
    <<56260, 35552, 41859, 34249, 1458, 28988, 54406, 28713, 26626, 59151>>,
    <<11865, 54700, 46630, 17900, 25, 21577, 8934, 24139, 57244, 59596>>,
    <<2204, 59534, 9154, 59220, 17835, 31257, 4794, 4019, 45025, 38963>>,
    <<40264, 60419, 58669, 19126, 6510, 41670, 61520, 19373, 33211, 32044>>,
    <<12434, 42757, 37191, 49675, 17466, 5456, 6119, 43979, 30329, 61192>>,
    <<61971, 42768, 2339, 10231, 64339, 38426, 20341, 64939, 17844, 57464>>,
    <<14203, 44519, 40367, 54148, 17857, 34862, 28729, 61967, 20976, 22776>>,
    <<17236, 44153, 62849, 11942, 9135, 60649, 11219, 31882, 63008, 64010>>,
    <<27060, 12020, 49115, 45566, 53248, 50454, 45335, 31394, 52961, 25256>>,
    <<26338, 22012, 45552, 57890, 16610, 4435, 58176, 11911, 22458, 49252>>,
    <<38460, 19308, 63773, 49914, 21173, 54762, 49726, 59608, 54827, 59789>>,
    <<37769, 65033, 49409, 53553, 33823, 26673, 16423, 47036, 7333, 50821>>,
    <<7440, 6903, 7326, 8646, 18313, 18249, 31289, 57364, 23297, 63608>>,
    <<31437, 10875, 31336, 14881, 46635, 2097, 65347, 54855, 42918, 24093>>,
    <<33333, 4023, 35291, 7197, 49282, 2207, 41553, 60107, 32740, 37955>>,
    <<37930, 35230, 34031, 30495, 5209, 32473, 59375, 6891, 4019, 35442>>,
    <<38355, 24762, 37943, 18346, 9706, 40903, 46230, 33404, 11206, 59093>>,
    <<2537, 36304, 10451, 16132, 45032, 55486, 19169, 44332, 11268, 28338>>,
    <<57778, 12793, 56511, 49896, 24308, 28684, 30857, 53994, 44818, 21950>>,
    <<25233, 8412, 58794, 26855, 36280, 12289, 40152, 34371, 28302, 48145>>,
    <<21113, 36083, 7455, 50421, 40153, 16725, 63873, 60877, 57865, 20115>>,
    <<64771, 48990, 12781, 24832, 28261, 62733, 16868, 34784, 7521, 27959>>,
    <<36412, 47982, 21600, 15218, 12098, 46668, 57781, 4530, 30887, 10338>>,
    <<59549, 57376, 12717, 60359, 11573, 43320, 50394, 60064, 38820, 59915>>,
    <<44822, 46666, 59074, 56277, 42497, 64293, 54934, 47814, 25079, 56001>>,
    <<25596, 11475, 40923, 38998, 38909, 31857, 48347, 35858, 17288, 17402>>,
    <<55686, 30179, 58859, 26645, 39139, 29112, 12666, 1520, 53296, 26237>>,
    <<31887, 56862, 61188, 19908, 37742, 34666, 5979, 32324, 38619, 16497>>,
    <<48519, 43184, 3120, 508, 6327, 18691, 9220, 49850, 34350, 11345>>,
    <<40177, 46261, 41093, 7848, 4636, 58249, 23742, 24005, 24724, 39715>>,
    <<43619, 29471, 24548, 25685, 3297, 55059, 34151, 56378, 34442, 4154>>,
    <<34364, 14301, 53982, 26369, 60675, 29680, 60757, 2755, 15678, 22117>>,
    <<50447, 33801, 37312, 7997, 16573, 8318, 58229, 34160, 16687, 27447>>,
    <<54869, 25406, 27289, 8007, 63502, 31774, 63207, 52317, 59604, 18270>>,
    <<33030, 61499, 49625, 62598, 45878, 49166, 63088, 46414, 31476, 10032>>,
    <<53961, 49546, 45305, 4771, 24680, 12633, 42767, 3534, 41606, 21580>>,
    <<49161, 55478, 32368, 10708, 47773, 16603, 4107, 55725, 8151, 7750>>,
    <<17146, 51342, 55359, 40030, 17039, 47507, 60062, 26501, 14168, 11155>>,
    <<18246, 27575, 43365, 38839, 41405, 38682, 54608, 29730, 14810, 59174>>,
    <<36350, 51670, 18170, 31305, 65163, 58619, 43267, 18076, 23367, 41717>>,
    <<60241, 58112, 15026, 57792, 1717, 58335, 2096, 50595, 64013, 46221>>,
    <<20781, 34396, 55184, 50035, 35959, 55415, 1406, 21777, 53611, 35466>>,
    <<37943, 47586, 61720, 7806, 7223, 8964, 8397, 59631, 42500, 2815>>,
    <<20642, 37191, 25927, 7565, 19217, 27269, 63255, 7982, 37295, 54783>>,
    <<64155, 1190, 14222, 8383, 40372, 60633, 50276, 32949, 51392, 49700>>,
    <<46205, 62410, 24589, 40580, 23998, 3145, 19441, 48556, 56753, 45438>>,
    <<7809, 30121, 15433, 22230, 30966, 28318, 25422, 45680, 22218, 29788>>,
    <<58635, 18530, 6966, 17524, 43769, 26879, 16379, 63355, 60510, 23521>>,
    <<2647, 59753, 18087, 64118, 42286, 24005, 39365, 52841, 25254, 421>>,
    <<16733, 22552, 9416, 6228, 37584, 8118, 6005, 38036, 36753, 39487>>,
    <<37137, 18819, 12995, 36228, 11585, 48531, 53763, 7079, 52604, 19339>>,
    <<41299, 40723, 41405, 13926, 33751, 14920, 50300, 32157, 58814, 25649>>,
    <<30535, 34729, 64485, 6401, 16481, 15798, 32631, 28855, 3950, 48396>>,
    <<18396, 25749, 32242, 4546, 13936, 10430, 25934, 47448, 12239, 51456>>,
    <<21220, 42752, 38430, 349, 5073, 27334, 50241, 29111, 11577, 28690>>,
    <<44306, 55542, 32125, 29981, 25913, 58728, 41011, 38160, 19675, 12439>>,
    <<20003, 31359, 56616, 7900, 64938, 43094, 60113, 14409, 9729, 27255>>,
    <<28045, 512, 29691, 65490, 15246, 37355, 46736, 775, 59517, 28412>>,
    <<28585, 42932, 33793, 57818, 60203, 42016, 28078, 33459, 20022, 911>>,
    <<19530, 38002, 50311, 33263, 14021, 49529, 38984, 36665, 34621, 42687>>,
    <<38754, 35737, 14129, 34888, 41108, 31263, 62019, 33340, 16378, 24714>>,
    <<7668, 19779, 41013, 33958, 10380, 4035, 64594, 48303, 61252, 11579>>,
    <<40735, 4470, 16990, 46627, 44818, 50931, 28371, 2408, 25150, 8765>>,
    <<26668, 19858, 1653, 29305, 40593, 26520, 53968, 62044, 42463, 11127>>,
    <<28182, 8663, 36496, 45707, 20904, 57789, 54327, 22270, 48769, 29524>>,
    <<5656, 27197, 48481, 16266, 11683, 48909, 20061, 47430, 53876, 43810>>,
    <<59427, 65148, 19527, 58023, 61370, 1005, 10541, 56853, 15269, 21590>>,
    <<43444, 10532, 61464, 15332, 33236, 6103, 38419, 40073, 17219, 58556>>,
    <<53750, 48642, 40341, 45762, 36340, 34388, 59338, 9736, 8395, 33981>>,
    <<31521, 33930, 51631, 13758, 3547, 11627, 40899, 34073, 13531, 33824>>,
    <<9329, 9325, 28196, 48718, 62975, 28937, 4881, 12290, 56785, 7340>>,
    <<39698, 20714, 61775, 24634, 14421, 12972, 64836, 40078, 24570, 24517>>,
    <<32003, 8498, 62063, 36084, 11018, 56910, 58218, 32379, 10158, 33608>>,
    <<2535, 7224, 60867, 59374, 2627, 30993, 47757, 5623, 227, 49652>>,
    <<13196, 8454, 16953, 28685, 14252, 17812, 57665, 19279, 208, 49700>>,
    <<10396, 60091, 29202, 29934, 45494, 11479, 34776, 17012, 58860, 28088>>,
    <<31251, 20681, 15006, 10501, 12183, 45706, 59459, 30661, 4486, 64941>>,
    <<3431, 452, 11106, 26486, 47298, 50827, 20125, 55484, 12424, 27967>>,
    <<33058, 63435, 9085, 30192, 49099, 62226, 6134, 8151, 23277, 2812>>,
    <<18018, 38919, 53149, 57448, 4687, 33015, 33506, 17588, 36888, 62488>>,
    <<28473, 63094, 26774, 14327, 17323, 58073, 24238, 30580, 59350, 30624>>,
    <<58246, 42337, 44112, 65066, 64459, 10226, 10968, 39188, 6669, 35001>>,
    <<34262, 2152, 36528, 11930, 17287, 34947, 18252, 42066, 44938, 6642>>,
    <<45598, 58932, 25659, 45116, 53506, 30040, 1874, 19262, 58174, 30929>>,
    <<34190, 19660, 14463, 17137, 25615, 13391, 64463, 58364, 27336, 1320>>,
    <<46857, 47790, 58420, 371, 26297, 56152, 59538, 11263, 48332, 37182>>,
    <<13086, 42984, 44580, 3692, 33439, 20245, 56603, 57109, 21436, 903>>,
    <<24696, 6951, 33628, 25071, 6723, 49132, 37128, 57484, 24691, 55200>>,
    <<51045, 32309, 23636, 21151, 13987, 34152, 48752, 38780, 5827, 58925>>,
    <<11592, 36081, 61963, 45442, 10073, 59149, 43086, 36721, 21657, 6337>>,
    <<64881, 36351, 12823, 36204, 13107, 37870, 53320, 24416, 60714, 47191>>,
    <<61973, 44072, 52285, 1353, 27559, 24640, 47556, 23066, 54846, 59960>>,
    <<35692, 15791, 50683, 25936, 58995, 40451, 18402, 24016, 44882, 34972>>,
    <<2818, 54224, 60335, 46721, 17762, 43351, 29993, 52458, 11533, 52736>>,
    <<43530, 32244, 27360, 24874, 19965, 58619, 17188, 40285, 40127, 32125>>,
    <<25725, 62836, 36475, 58844, 1397, 18075, 54857, 56182, 40140, 18547>>,
    <<53670, 25350, 50937, 34445, 21516, 38111, 56829, 19803, 21529, 31429>>,
    <<27624, 32388, 53236, 60430, 8970, 63210, 54840, 7829, 18122, 58580>>,
    <<18866, 47497, 30120, 58903, 1417, 28325, 19336, 37678, 49774, 43810>>,
    <<1480, 36874, 6037, 55471, 59615, 34138, 45312, 49853, 36753, 18319>>,
    <<41198, 45377, 16390, 58983, 9973, 6243, 57086, 15304, 2396, 49420>>,
    <<47509, 15297, 13723, 48443, 59054, 47464, 47892, 20782, 47849, 33499>>,
    <<54766, 7648, 47281, 62883, 20013, 20247, 28610, 60618, 64746, 50184>>,
    <<50384, 51209, 3095, 51876, 27066, 4530, 20376, 51172, 12199, 35517>>,
    <<49952, 40312, 5779, 47046, 33467, 50237, 44454, 5705, 27566, 16561>>,
    <<2219, 48816, 6445, 50194, 12834, 11200, 57307, 10834, 18767, 19748>>,
    <<40225, 21551, 36841, 57400, 15105, 27168, 38794, 55846, 46792, 35451>>,
    <<52989, 21852, 63578, 51307, 13416, 37621, 43153, 322, 10202, 55303>>,
    <<32857, 35755, 35282, 61405, 32291, 49896, 60402, 39178, 18087, 12895>>,
    <<54416, 35233, 17767, 43214, 64635, 52247, 64200, 64993, 54034, 50158>>,
    <<18121, 28962, 23697, 6448, 58088, 48296, 44390, 62032, 21964, 36432>>,
    <<55205, 21610, 49825, 44526, 53654, 59865, 10929, 7555, 55359, 64841>>,
    <<45070, 34869, 23641, 15801, 26309, 21727, 34346, 34300, 64638, 10919>>,
    <<50477, 41695, 8432, 56874, 15758, 56885, 1637, 47008, 3405, 30341>>,
    <<45147, 2462, 49311, 27588, 2448, 20829, 57458, 33531, 46167, 14309>>,
    <<2123, 16510, 64119, 47938, 63479, 38142, 59489, 14371, 60569, 57400>>,
    <<46017, 43487, 42437, 4305, 12294, 38245, 29945, 55932, 2549, 62140>>,
    <<19907, 32585, 16820, 30019, 42589, 6508, 39113, 44113, 5433, 34973>>,
    <<43453, 16738, 58586, 36185, 10735, 10423, 52980, 32599, 50448, 40857>>,
    <<3791, 24336, 64948, 38705, 43682, 40606, 21899, 63315, 11474, 18835>>,
    <<63294, 38478, 25748, 14565, 5302, 38615, 57232, 26803, 48238, 21832>>,
    <<46776, 59806, 48, 51858, 7309, 27876, 40560, 4716, 50340, 12663>>,
    <<326, 37110, 56048, 12639, 56665, 35153, 18302, 50362, 710, 19579>>,
    <<43626, 41335, 5738, 52194, 7497, 25811, 55635, 37078, 35634, 37328>>,
    <<10031, 62392, 36204, 49857, 144, 19978, 46907, 43363, 1506, 26186>>,
    <<10635, 35190, 10067, 38314, 59293, 17650, 10656, 9405, 22469, 3460>>,
    <<3633, 9326, 14203, 9605, 35648, 11136, 21466, 57162, 45546, 59523>>,
    <<32325, 24545, 45113, 63132, 36616, 51064, 17360, 31602, 38467, 13565>>,
    <<43829, 43562, 60630, 15124, 47950, 6034, 1985, 56450, 36461, 18204>>,
    <<60451, 47226, 32296, 140, 2202, 54688, 39746, 15348, 45247, 42516>>,
    <<35246, 15924, 57716, 7323, 47078, 59624, 22599, 1100, 41986, 38895>>,
    <<53222, 52761, 41462, 23448, 41690, 43480, 63346, 49084, 63676, 29138>>,
    <<61976, 36603, 45349, 8175, 28236, 15603, 50905, 25663, 47841, 63759>>,
    <<29209, 57220, 24804, 24833, 46846, 39091, 1850, 47272, 34809, 37549>>,
    <<48619, 47300, 63907, 41421, 28693, 31754, 8430, 18488, 13024, 12989>>,
    <<43931, 18268, 43704, 36249, 49144, 48238, 61276, 35006, 33559, 45767>>,
    <<17105, 23541, 23707, 18363, 32127, 62574, 34299, 93, 9309, 46978>>,
    <<2678, 60636, 53762, 8189, 43123, 36128, 20426, 51715, 34970, 452>>,
    <<10992, 2658, 4495, 277, 4366, 46834, 38752, 729, 17191, 57032>>,
    <<61346, 14049, 8605, 15776, 27914, 22132, 55996, 13150, 26995, 9351>>,
    <<23795, 27647, 12368, 14481, 5122, 14626, 10584, 59387, 30724, 11719>>,
    <<7395, 9523, 25067, 21253, 30246, 32239, 34363, 28185, 7403, 568>>,
    <<21794, 39645, 14990, 47105, 57126, 34979, 26863, 38570, 9246, 23307>>,
    <<60248, 39622, 47843, 42693, 26182, 23808, 11574, 13062, 53134, 28039>>,
    <<47911, 65189, 62367, 41635, 43752, 15615, 10787, 41558, 57955, 50573>>,
    <<3773, 7883, 52278, 33974, 37808, 28356, 25953, 28280, 41588, 3106>>,
    <<50526, 34203, 13183, 43978, 57052, 43625, 34670, 42326, 19848, 18497>>,
    <<37632, 9066, 61519, 48898, 6413, 54205, 2075, 812, 27319, 45601>>,
    <<39647, 22000, 42080, 35044, 3095, 37827, 22215, 29993, 56588, 64269>>,
    <<42794, 11156, 16489, 23794, 1755, 55206, 63828, 54153, 35811, 36165>>,
    <<919, 43840, 40001, 48003, 62173, 33435, 49194, 11698, 52339, 14557>>,
    <<5796, 21026, 17304, 45991, 35566, 18285, 9817, 22133, 38594, 28967>>,
    <<45390, 28973, 32297, 10054, 26223, 27080, 46203, 55870, 34731, 1329>>,
    <<41242, 54557, 45354, 20069, 10242, 46177, 47578, 61471, 56451, 59718>>,
    <<32311, 10774, 48201, 55805, 13470, 41201, 23830, 16815, 8787, 44669>>,
    <<2904, 16167, 6312, 22094, 49235, 43487, 62242, 38478, 47211, 28581>>,
    <<49401, 17558, 62601, 29632, 51406, 56473, 57224, 41579, 59666, 35562>>,
    <<19994, 33086, 47099, 30723, 41729, 65437, 7305, 4373, 18856, 10867>>,
    <<64778, 64397, 1559, 6546, 1232, 53461, 13210, 22445, 14840, 57684>>,
    <<28248, 5358, 20406, 54164, 9576, 4639, 25064, 58899, 4762, 54814>>,
    <<43031, 14720, 52, 60205, 31590, 11701, 10383, 48937, 34732, 5473>>,
    <<17199, 3929, 57432, 4952, 63013, 9202, 712, 42599, 38287, 60705>>,
    <<16957, 3422, 14697, 31320, 42335, 59823, 47908, 63148, 46842, 40765>>,
    <<65064, 25833, 48204, 57046, 19562, 6663, 62750, 48653, 43931, 60746>>,
    <<16387, 65089, 19515, 63156, 5992, 24123, 40283, 25458, 5072, 15134>>,
    <<42335, 35269, 49023, 22303, 30941, 34646, 10105, 2779, 50504, 52610>>,
    <<45927, 57064, 53852, 35434, 47634, 33826, 47463, 10389, 46949, 64078>>,
    <<34864, 39432, 713, 32010, 44427, 47734, 48055, 35335, 36728, 55362>>,
    <<31837, 32176, 27545, 39705, 13381, 36233, 2478, 7418, 34551, 23184>>,
    <<51464, 39110, 60612, 27632, 52842, 43848, 16401, 25666, 58735, 45844>>,
    <<42482, 22942, 61508, 62622, 34530, 42902, 4135, 33446, 43877, 5890>>,
    <<46370, 9205, 52745, 34328, 45363, 57269, 56704, 59341, 26899, 11607>>,
    <<62041, 44396, 48614, 10403, 34457, 64287, 36074, 59664, 63488, 21642>>,
    <<38631, 40932, 45149, 15964, 58355, 50280, 25779, 19425, 50818, 36833>>,
    <<29106, 6868, 60519, 37494, 46076, 29910, 53390, 47387, 44182, 34867>>,
    <<24461, 9206, 59065, 36269, 17861, 59052, 2707, 39688, 64773, 5253>>,
    <<64068, 25100, 34451, 15528, 27329, 55977, 45974, 19577, 9909, 40728>>,
    <<40376, 51738, 50535, 34846, 44272, 54615, 18922, 43784, 40923, 63981>>,
    <<11347, 21201, 17749, 38143, 21337, 17576, 39225, 49405, 30361, 56557>>,
    <<57799, 39393, 5081, 47433, 24888, 35876, 40991, 10577, 63829, 2263>>,
    <<7882, 51917, 33651, 25093, 14665, 18446, 41327, 63276, 54363, 44685>>,
    <<53978, 27097, 61733, 2613, 43065, 47454, 25402, 49055, 46536, 10972>>,
    <<54910, 834, 37629, 31743, 53315, 53674, 7751, 16303, 35282, 50822>>,
    <<64749, 10783, 35512, 16594, 9167, 39446, 57327, 20321, 18516, 33687>>,
    <<24724, 20594, 28044, 37196, 50949, 55008, 44839, 16007, 19403, 10042>>,
    <<61025, 33271, 16312, 14973, 40715, 54258, 62790, 19337, 56410, 27759>>,
    <<3377, 52723, 22289, 32324, 50270, 61044, 24880, 39458, 27760, 47144>>,
    <<5908, 195, 62480, 33812, 42264, 31401, 35735, 4702, 12147, 46808>>,
    <<40012, 12808, 33163, 43653, 36317, 15136, 27197, 6981, 58750, 2372>>,
    <<49898, 31980, 2558, 20298, 48059, 48413, 27760, 29073, 52377, 41524>>,
    <<27444, 44655, 45241, 37753, 39721, 20101, 522, 43972, 30621, 57647>>,
    <<62704, 7003, 20332, 14730, 40307, 40024, 63869, 20938, 46701, 32027>>,
    <<20172, 37757, 51398, 37512, 58920, 29124, 6696, 40456, 26543, 49473>>,
    <<27302, 64907, 850, 7637, 12898, 6001, 7793, 62845, 36105, 55994>>,
    <<40380, 46802, 57158, 53160, 14173, 65013, 40091, 30156, 12344, 41237>>,
    <<23335, 15432, 32351, 38598, 2192, 32103, 21453, 35016, 31279, 38052>>,
    <<25772, 20837, 24236, 49103, 8461, 60977, 22384, 15806, 12767, 53588>>,
    <<50059, 10827, 62295, 50485, 54702, 42878, 59478, 50915, 10167, 61154>>,
    <<62716, 36547, 15976, 28796, 55507, 25267, 15816, 23677, 51581, 19373>>,
    <<50504, 1176, 3322, 26266, 32853, 21942, 17841, 19361, 14262, 61049>>,
    <<27672, 48741, 53333, 48744, 48079, 1789, 50852, 31017, 13340, 44953>>,
    <<9519, 48044, 54473, 11888, 26428, 15026, 3795, 48094, 63167, 43227>>,
    <<39653, 5694, 3222, 54894, 25607, 52359, 16707, 27853, 61583, 46101>>,
    <<55979, 39241, 57639, 21514, 37508, 1589, 15296, 13878, 54466, 50305>>,
    <<29932, 55443, 39049, 25258, 9540, 37830, 6574, 27309, 10591, 8133>>,
    <<39094, 21034, 32151, 55686, 46142, 49923, 1360, 63198, 60043, 15153>>,
    <<97, 37119, 4915, 34827, 7434, 54125, 42154, 12575, 22049, 57709>>,
    <<11756, 31830, 27608, 56231, 17356, 26214, 58393, 22419, 43108, 59068>>,
    <<56611, 9588, 44920, 24169, 17692, 20126, 45885, 53098, 14206, 8426>>,
    <<26123, 16772, 57504, 28758, 3944, 7907, 62715, 24677, 20987, 52353>>,
    <<6414, 12002, 45780, 16308, 23156, 14688, 8488, 45222, 25385, 17122>>,
    <<55132, 53891, 34431, 48714, 33941, 34428, 53743, 59632, 56761, 54331>>,
    <<9140, 25578, 10574, 39560, 28845, 47548, 61332, 52774, 58654, 64903>>,
    <<21115, 64925, 30204, 15486, 19570, 62706, 59524, 10433, 21415, 45126>>,
    <<14469, 44959, 33904, 996, 7872, 7931, 64843, 15889, 30034, 51749>>,
    <<30829, 2134, 41960, 5254, 3810, 57219, 39474, 12370, 32487, 42985>>,
    <<35963, 65254, 3185, 57084, 49579, 59901, 2243, 8259, 27233, 21230>>,
    <<44113, 21641, 10195, 40595, 48885, 32574, 57103, 41037, 25588, 44372>>,
    <<44209, 16049, 38093, 11114, 13528, 3389, 62759, 43775, 51091, 60771>>,
    <<31515, 45475, 51126, 4232, 43150, 35161, 58966, 6596, 22406, 46459>>,
    <<24743, 39573, 57058, 50875, 35350, 56643, 58542, 61622, 12032, 41062>>,
    <<5269, 16399, 47572, 20805, 51649, 43152, 74, 38028, 18770, 55243>>,
    <<48420, 2560, 24984, 35423, 40300, 46123, 46402, 60299, 64013, 13523>>,
    <<36780, 17146, 37726, 28277, 8019, 15457, 26119, 58469, 19652, 8072>>,
    <<2585, 48888, 43512, 16502, 54284, 37682, 18561, 54101, 37239, 19453>>,
    <<34510, 42231, 1261, 17325, 35173, 54735, 65333, 31701, 40599, 34666>>,
    <<45493, 65264, 11351, 56844, 44282, 26958, 53157, 25169, 45532, 58504>>,
    <<34691, 9904, 29300, 64447, 62348, 6642, 16556, 4483, 55264, 5290>>,
    <<49268, 40371, 41299, 46912, 11636, 63844, 16877, 39815, 32547, 50985>>,
    <<65326, 63335, 46222, 33463, 6574, 40117, 1190, 33086, 60819, 45028>>,
    <<41815, 19478, 34258, 8863, 59231, 56859, 5346, 47642, 771, 23993>>,
    <<30796, 56778, 65369, 59435, 12043, 48118, 8899, 52831, 23415, 38419>>,
    <<32875, 58347, 61282, 19703, 31813, 2014, 27657, 3846, 27335, 29597>>,
    <<16578, 35725, 61361, 62004, 10661, 55652, 12190, 730, 10483, 28009>>,
    <<57990, 6932, 29051, 20722, 39936, 16317, 62477, 22394, 52509, 56878>>,
    <<28491, 23648, 53444, 4003, 48444, 1308, 55731, 10602, 42040, 50554>>,
    <<18063, 44498, 44251, 64742, 33383, 52169, 52515, 58677, 63758, 3921>>,
    <<51021, 48486, 63082, 13483, 55033, 48558, 20271, 4207, 36641, 63616>>,
    <<48673, 30936, 8994, 52977, 537, 31260, 43799, 9923, 47510, 32414>>,
    <<43103, 31602, 5364, 34060, 8681, 43957, 63772, 16780, 12336, 38495>>,
    <<4427, 23335, 65451, 63405, 18527, 9983, 41706, 61140, 49482, 58330>>,
    <<3977, 27168, 42659, 8031, 8512, 11931, 37952, 6966, 43707, 37682>>,
    <<59682, 62370, 52103, 411, 21630, 14345, 10810, 12820, 50410, 62101>>,
    <<59771, 925, 43755, 44559, 55880, 2221, 16201, 37494, 6493, 6473>>,
    <<28762, 44442, 26645, 10425, 12797, 56385, 64547, 20048, 38057, 883>>,
    <<29658, 31673, 53924, 30139, 49835, 31194, 32078, 38036, 3257, 63957>>,
    <<13785, 61143, 32961, 15000, 7032, 44428, 34249, 48872, 24918, 25820>>,
    <<11926, 14843, 5690, 29572, 54025, 15789, 60830, 54385, 45497, 51168>>,
    <<12841, 22350, 3270, 61412, 57045, 52610, 9876, 61016, 59529, 9688>>,
    <<51567, 14021, 1121, 49253, 20082, 6632, 48232, 57198, 19534, 25305>>,
    <<52444, 54333, 25574, 13620, 33033, 44129, 12004, 4300, 41921, 48184>>,
    <<22592, 60776, 6432, 24179, 30023, 11206, 60068, 47541, 25199, 17151>>,
    <<8203, 44372, 10221, 1794, 55757, 54539, 35600, 47687, 30572, 16618>>,
    <<13987, 14816, 14388, 4084, 62928, 27571, 55076, 45963, 64511, 16870>>,
    <<23499, 33776, 46026, 62710, 25754, 25685, 14112, 3927, 24339, 13516>>,
    <<29639, 63215, 61335, 29486, 51624, 18712, 17655, 60430, 12789, 26067>>,
    <<60389, 3938, 10299, 44233, 5154, 36245, 9148, 24636, 38249, 16469>>,
    <<36072, 40899, 13970, 9542, 27189, 40541, 43063, 1091, 20497, 64432>>,
    <<19349, 48461, 60135, 8743, 8248, 31827, 52230, 18558, 46384, 29591>>,
    <<58960, 49167, 36214, 60431, 10642, 28442, 49553, 42446, 34044, 53645>>,
    <<3073, 3633, 7007, 21437, 65480, 42530, 2053, 49858, 41860, 18178>>,
    <<18429, 52414, 16755, 13520, 19193, 56768, 32233, 29840, 35646, 32761>>,
    <<11732, 41, 16567, 37029, 60575, 957, 10673, 8947, 14161, 51155>>,
    <<45041, 55426, 40200, 44770, 49973, 56565, 10999, 43538, 40955, 40058>>,
    <<24600, 5798, 419, 60384, 10394, 55989, 40790, 49448, 32871, 20448>>,
    <<39503, 30519, 51295, 10889, 15826, 34267, 27133, 34234, 1245, 11792>>,
    <<56528, 36732, 9613, 54178, 32414, 26980, 39054, 17580, 63291, 63010>>,
    <<15993, 61069, 21544, 7993, 27619, 4384, 8791, 2688, 32891, 10843>>,
    <<59937, 62132, 25892, 20095, 693, 50917, 14200, 58351, 57355, 21563>>,
    <<54748, 37014, 58000, 50232, 41628, 44624, 8553, 34513, 38326, 59933>>,
    <<23599, 65441, 24261, 51437, 64729, 58152, 37488, 55159, 43028, 61721>>,
    <<30228, 50299, 30955, 34732, 63971, 4241, 22968, 51194, 381, 42727>>,
    <<44941, 37907, 22028, 36010, 8505, 29183, 33163, 17900, 53669, 51535>>,
    <<27530, 21497, 37678, 31472, 15863, 28369, 52167, 53722, 26218, 61937>>,
    <<3598, 31029, 35518, 61195, 19970, 19401, 10771, 6365, 1977, 17544>>,
    <<45270, 54183, 14991, 57530, 3578, 57499, 29493, 44994, 23994, 52090>>,
    <<44356, 62149, 30468, 12165, 59127, 22536, 44263, 20651, 14843, 32119>>,
    <<58233, 11740, 9572, 47530, 11, 57131, 26999, 19540, 25441, 58216>>,
    <<20435, 53168, 46180, 10785, 30966, 7351, 65526, 23941, 25230, 1619>>,
    <<50372, 36708, 17607, 9080, 17650, 58593, 2616, 19454, 34872, 56194>>,
    <<19742, 29355, 49242, 58000, 60646, 19482, 10564, 41811, 18580, 45876>>,
    <<56298, 11660, 22208, 9931, 58960, 33173, 25454, 35086, 39564, 16921>>,
    <<14723, 7337, 29223, 54256, 54318, 46163, 7371, 16748, 15847, 57863>>,
    <<55507, 28900, 54598, 17383, 62255, 7121, 22884, 25854, 15429, 61344>>,
    <<37522, 37263, 9926, 3751, 43032, 42457, 58042, 56942, 8635, 32008>>,
    <<54289, 39994, 15736, 24413, 22233, 1283, 37765, 58688, 13180, 6736>>,
    <<15881, 22723, 23178, 30379, 58445, 30413, 32691, 3480, 14395, 41707>>,
    <<7067, 33089, 8530, 52319, 29421, 39987, 6070, 34809, 24834, 12721>>,
    <<23637, 52168, 46006, 22956, 56108, 43444, 62467, 48134, 14131, 65385>>,
    <<63365, 23651, 19095, 845, 17473, 19335, 17305, 28702, 31361, 10442>>,
    <<54985, 48407, 3259, 23325, 48432, 14006, 62189, 33224, 26763, 51606>>,
    <<7653, 7723, 61200, 39767, 39595, 27168, 16984, 44222, 60269, 29370>>,
    <<13886, 44023, 26734, 50564, 61668, 10760, 33480, 55011, 6900, 16220>>,
    <<15677, 35250, 55739, 29888, 63106, 60050, 27829, 15663, 9442, 12968>>,
    <<58446, 54790, 58465, 30147, 63788, 13815, 151, 34298, 1415, 4945>>,
    <<2776, 8381, 375, 4436, 31493, 19255, 24161, 20754, 5334, 26057>>,
    <<9780, 15635, 24661, 12817, 47416, 1456, 52605, 27271, 21421, 59317>>,
    <<35303, 62054, 25770, 9219, 40895, 37586, 22061, 54577, 35810, 2810>>,
    <<44904, 43100, 46250, 57431, 36039, 28413, 11870, 13723, 65517, 51938>>,
    <<30680, 15569, 58443, 47803, 50419, 13969, 62648, 13577, 55687, 33562>>,
    <<51272, 26310, 60487, 58618, 4199, 21662, 62190, 53545, 2038, 17220>>,
    <<21534, 1402, 14828, 55306, 62144, 53988, 11367, 2045, 33890, 52313>>,
    <<36425, 59194, 5382, 46749, 45480, 39246, 1208, 58572, 62883, 4419>>,
    <<31751, 18859, 52538, 58257, 29946, 6470, 35454, 30920, 61565, 42679>>,
    <<37342, 58401, 24883, 27160, 21823, 17714, 44408, 48193, 57132, 16737>>,
    <<44730, 42377, 27912, 44638, 62905, 53160, 24909, 6662, 6872, 31287>>,
    <<63734, 50881, 23411, 3662, 9676, 27303, 35139, 181, 24879, 24533>>,
    <<53735, 11249, 26006, 20450, 24392, 44323, 21848, 26013, 53004, 28584>>,
    <<48506, 55056, 27006, 4951, 54022, 16850, 59504, 59907, 46519, 37911>>,
    <<47662, 27205, 32584, 34059, 22599, 46401, 50343, 35122, 43544, 17246>>,
    <<22669, 18079, 20487, 59949, 39315, 43198, 18973, 2537, 13171, 60448>>,
    <<44469, 46300, 32762, 21743, 19959, 24015, 12806, 45507, 16326, 39994>>,
    <<42313, 35696, 17863, 1543, 52165, 5275, 22992, 48421, 51656, 43033>>,
    <<46470, 39595, 30943, 43600, 65508, 63776, 13484, 3141, 17614, 7939>>,
    <<23639, 20263, 26865, 20518, 42518, 45003, 1919, 30385, 13492, 30388>>,
    <<2774, 47901, 17009, 58886, 65499, 44477, 19266, 43310, 33008, 57202>>,
    <<7078, 39764, 52900, 6441, 17231, 17428, 17314, 59586, 56415, 28121>>,
    <<26085, 60559, 32582, 19247, 47680, 35214, 22423, 8554, 55815, 60245>>,
    <<1276, 49419, 30793, 19024, 28705, 16005, 11722, 17731, 25947, 63248>>,
    <<40970, 1831, 60397, 65469, 49910, 61886, 7261, 36885, 4657, 14570>>,
    <<36792, 33289, 33700, 52835, 47915, 40316, 5081, 63522, 32942, 8974>>,
    <<31089, 56845, 45472, 62302, 24776, 58210, 61890, 26750, 10697, 11720>>,
    <<2107, 4466, 38405, 1904, 16932, 32380, 49279, 63994, 49631, 16684>>,
    <<36527, 54202, 13052, 24923, 54839, 31160, 19507, 45379, 24907, 54564>>,
    <<10190, 58369, 27563, 40504, 53944, 2705, 55302, 59604, 1497, 12356>>,
    <<45717, 43841, 10931, 18803, 50840, 45463, 32645, 28005, 33420, 48215>>,
    <<63311, 8943, 59050, 55060, 32117, 27115, 40782, 2982, 17504, 45656>>,
    <<58374, 40318, 35611, 47194, 32330, 28856, 52002, 19873, 5845, 48406>>,
    <<5026, 14506, 9566, 4651, 32205, 60852, 3544, 26284, 10607, 57595>>,
    <<51731, 27587, 45099, 6509, 3267, 64574, 45484, 33161, 41432, 40592>>,
    <<57982, 1722, 8634, 14320, 14652, 53327, 49815, 62018, 22098, 3859>>,
    <<35374, 45382, 52306, 37049, 25879, 11748, 24700, 11005, 54606, 37962>>,
    <<35982, 57374, 13042, 24793, 64884, 59075, 26593, 55106, 22277, 14566>>,
    <<42506, 84, 1917, 37219, 13328, 19210, 49988, 40173, 16734, 14910>>,
    <<30390, 33297, 24058, 7881, 36506, 41041, 50804, 35143, 29496, 12454>>,
    <<30900, 20911, 8851, 28575, 12677, 26327, 20988, 8924, 54139, 44595>>,
    <<32635, 18776, 28772, 26906, 16889, 20856, 4280, 6924, 44804, 62971>>,
    <<21710, 9776, 33736, 25960, 38633, 51002, 48235, 8898, 528, 736>>,
    <<41092, 51866, 27290, 56320, 6789, 54133, 16644, 43027, 55773, 12585>>,
    <<38109, 32587, 24540, 697, 52524, 48315, 37405, 54714, 48621, 18123>>,
    <<3836, 13288, 58567, 62438, 21831, 56062, 62500, 49910, 20752, 14575>>,
    <<42010, 31285, 27649, 20595, 33683, 64281, 24027, 30188, 1051, 38700>>,
    <<7767, 38760, 27139, 42674, 653, 34333, 7311, 62498, 17762, 122>>,
    <<64603, 25940, 48601, 28471, 6321, 3178, 64685, 31354, 55634, 13173>>,
    <<28149, 4999, 12040, 53138, 30630, 31991, 28614, 12661, 58926, 55071>>,
    <<57214, 40999, 10777, 31003, 14010, 29649, 33678, 1750, 24570, 37294>>,
    <<39403, 31953, 9732, 59326, 51974, 48433, 64193, 20644, 32495, 57114>>,
    <<28952, 19746, 4099, 48504, 4075, 58988, 9057, 53773, 7610, 43808>>,
    <<49970, 1688, 51149, 28076, 33176, 5881, 13669, 22895, 16949, 48919>>,
    <<24014, 56798, 50993, 13652, 12094, 26481, 43821, 63543, 54129, 60187>>,
    <<43496, 13949, 35344, 23502, 64750, 43132, 28387, 15042, 12764, 14230>>,
    <<14487, 34955, 64269, 6376, 34935, 27168, 63476, 24425, 23596, 57093>>,
    <<56447, 38809, 53944, 55058, 42928, 26338, 51748, 2394, 6487, 35230>>,
    <<764, 1438, 59307, 41620, 19862, 62459, 14900, 51404, 31876, 39199>>,
    <<24894, 29705, 54181, 43548, 9461, 34100, 48705, 13953, 28905, 59366>>,
    <<23164, 26900, 28701, 13487, 24501, 61016, 9237, 62356, 24223, 28208>>,
    <<57270, 50252, 6652, 54100, 40549, 50835, 16125, 11276, 55191, 32073>>,
    <<24481, 3402, 40275, 5055, 34672, 50093, 19567, 47022, 34576, 3106>>,
    <<38229, 50662, 41646, 28141, 7842, 39873, 31851, 38840, 64899, 64128>>,
    <<35434, 7346, 50386, 50991, 890, 49890, 35593, 48539, 3833, 60728>>,
    <<22456, 58022, 17478, 25104, 54438, 65043, 43391, 7545, 55328, 9775>>,
    <<55179, 1262, 27151, 22749, 24332, 28866, 21393, 10621, 54667, 3164>>,
    <<23314, 34004, 55504, 28572, 61017, 33835, 54618, 29137, 26759, 64220>>,
    <<41779, 42217, 11500, 61445, 51477, 65064, 49067, 6466, 3327, 30497>>,
    <<58502, 58256, 38268, 64514, 1052, 35698, 49809, 52180, 40523, 62010>>,
    <<32934, 60568, 32469, 52571, 19062, 57732, 39510, 55901, 25561, 61022>>,
    <<24341, 17204, 17043, 37996, 19645, 54686, 52948, 39341, 39166, 62436>>,
    <<55836, 29757, 27175, 47991, 34009, 56289, 40715, 61097, 48378, 38953>>,
    <<50893, 33294, 60034, 24024, 14923, 53470, 39131, 58022, 37243, 5020>>,
    <<17550, 30491, 23228, 4610, 26341, 58810, 36683, 33589, 64792, 39809>>,
    <<21945, 20518, 8838, 22121, 13189, 55727, 40860, 21946, 25074, 38966>>,
    <<38083, 15462, 26770, 979, 3877, 47344, 31949, 8135, 44858, 29446>>,
    <<50681, 27880, 63755, 13607, 20784, 63941, 44577, 47557, 7466, 54983>>,
    <<3178, 39057, 3321, 10586, 63542, 17587, 46781, 4245, 16555, 29957>>,
    <<37349, 36411, 61385, 59893, 20362, 8929, 12682, 46834, 12043, 64487>>,
    <<29034, 18125, 34912, 4499, 6751, 32756, 41612, 20610, 27335, 55603>>,
    <<47737, 19189, 25128, 17392, 1576, 27465, 18792, 7686, 44938, 28062>>,
    <<62986, 31025, 22394, 8071, 49221, 58842, 47851, 63029, 36686, 148>>,
    <<47021, 35340, 30823, 52210, 26027, 57148, 9917, 63869, 965, 34709>>,
    <<6290, 51168, 44829, 29895, 41456, 32343, 34568, 54035, 14842, 11368>>,
    <<28364, 29532, 54185, 24581, 27204, 61529, 12954, 34121, 5095, 7334>>,
    <<7945, 14492, 5174, 24371, 54122, 33702, 4808, 14150, 17980, 24707>>,
    <<63570, 48897, 53668, 31693, 28579, 15090, 14738, 31714, 29733, 21945>>,
    <<31730, 4754, 53321, 14554, 52276, 6544, 9389, 313, 27406, 39888>>,
    <<20709, 9162, 61216, 20113, 24527, 48723, 15529, 4170, 2628, 27345>>,
    <<62551, 327, 7915, 2305, 64024, 25685, 10740, 64173, 18335, 10761>>,
    <<16033, 19018, 62176, 22353, 15893, 3676, 4256, 35012, 11838, 23262>>,
    <<44085, 13839, 51711, 23511, 63157, 37552, 9553, 35873, 45921, 90>>,
    <<55551, 8836, 44896, 10434, 2728, 50444, 62084, 45842, 33440, 35242>>,
    <<25672, 62291, 10534, 31411, 25013, 36756, 51254, 60168, 1532, 11159>>,
    <<7985, 40444, 45413, 26694, 45102, 42768, 39135, 33894, 49685, 47996>>,
    <<40351, 54121, 14020, 32639, 13825, 44790, 45444, 39744, 23318, 10915>>,
    <<64079, 43146, 9060, 46714, 16902, 48260, 22042, 32125, 12187, 28776>>,
    <<10124, 18434, 58004, 1762, 60699, 9000, 39744, 21702, 34833, 4809>>,
    <<57284, 52041, 56599, 57901, 6686, 57308, 233, 41593, 11921, 40845>>,
    <<28251, 5860, 427, 17446, 5016, 32298, 31515, 45760, 16051, 5782>>,
    <<38096, 6916, 46668, 319, 56486, 30768, 12489, 47038, 65398, 26942>>,
    <<5370, 17650, 65162, 3729, 32391, 63072, 52000, 43234, 15477, 7903>>,
    <<15362, 53603, 30809, 24895, 23142, 26386, 19924, 26045, 26838, 61157>>,
    <<20222, 24097, 31596, 13513, 61493, 47177, 26250, 25924, 16604, 14135>>,
    <<53576, 6191, 5356, 28471, 50212, 38072, 40949, 20934, 26376, 38726>>,
    <<48176, 61268, 1413, 3467, 5915, 20439, 50539, 27887, 59408, 30960>>,
    <<21497, 22966, 51634, 40622, 11388, 50428, 1333, 2957, 25194, 43692>>,
    <<62679, 4155, 56448, 57289, 39316, 55986, 48908, 8517, 20615, 20555>>,
    <<35091, 51497, 27021, 28080, 61833, 18792, 17334, 35055, 50215, 56284>>,
    <<2622, 39071, 29928, 11662, 7829, 57536, 265, 61782, 51615, 36361>>,
    <<44557, 36237, 16773, 23216, 49457, 7386, 1466, 41834, 59181, 30279>>,
    <<51212, 7257, 1415, 6739, 32621, 31562, 6618, 38677, 25302, 47177>>,
    <<1940, 46230, 22298, 48698, 21929, 55973, 58325, 57152, 55713, 17417>>,
    <<34155, 14026, 357, 41397, 18767, 29868, 58140, 46158, 23799, 48565>>,
    <<9813, 21728, 47248, 44000, 7002, 58870, 45224, 31345, 51279, 21336>>,
    <<21878, 25227, 14422, 39781, 58886, 4540, 49930, 31323, 5126, 27484>>,
    <<62636, 13101, 24612, 17109, 26751, 2653, 45285, 47384, 62627, 57698>>,
    <<18625, 28920, 65022, 56391, 6570, 8721, 51910, 42364, 30060, 47088>>,
    <<5328, 57918, 22254, 2124, 12306, 1016, 35804, 25042, 51856, 30737>>,
    <<21491, 47731, 53698, 18261, 30865, 49704, 48239, 2645, 1268, 37189>>,
    <<48639, 24791, 43810, 56026, 50976, 54548, 37962, 21669, 60791, 12762>>,
    <<15125, 52144, 10652, 43246, 15354, 54597, 63494, 37286, 46297, 14301>>,
    <<30943, 10768, 42445, 61381, 45156, 53189, 53782, 25084, 47042, 31345>>,
    <<12713, 62836, 17264, 14066, 61121, 6883, 63881, 12961, 56507, 57944>>,
    <<32130, 29403, 9940, 30185, 47643, 27617, 12707, 412, 21747, 884>>,
    <<64956, 48834, 13874, 56767, 61768, 30854, 58113, 61588, 150, 36607>>,
    <<23476, 8895, 44192, 32763, 58778, 4939, 45791, 24381, 12242, 42530>>,
    <<15479, 49353, 47376, 46961, 22210, 38877, 14174, 64168, 64533, 40703>>,
    <<44568, 47086, 21658, 3955, 32931, 18219, 16659, 3964, 4615, 17134>>,
    <<799, 10046, 9352, 27621, 18742, 50818, 24938, 13958, 49741, 32783>>,
    <<53823, 6461, 10105, 48955, 33926, 49235, 38112, 24649, 36608, 26256>>,
    <<51118, 31101, 35536, 22346, 9689, 9640, 62818, 32474, 22677, 21542>>,
    <<1755, 11207, 33476, 23380, 47659, 56126, 49741, 59473, 49634, 30034>>,
    <<34419, 10153, 13294, 30634, 48976, 24432, 22220, 12966, 7172, 5597>>,
    <<31861, 47899, 15883, 17959, 3272, 36383, 61037, 49292, 47288, 345>>,
    <<63124, 26635, 9453, 60908, 52224, 34808, 53251, 7773, 50114, 45871>>,
    <<64528, 36747, 57207, 674, 45003, 9999, 9236, 17542, 24747, 21146>>,
    <<58354, 26505, 31709, 51259, 7959, 54770, 56714, 22162, 7224, 27281>>,
    <<29714, 57251, 44296, 47442, 21025, 35796, 12499, 56941, 8101, 64426>>,
    <<38420, 65532, 42781, 3574, 6669, 20583, 1941, 37005, 29649, 16014>>,
    <<48364, 47894, 9105, 63440, 56717, 56142, 56930, 16958, 32318, 32990>>,
    <<50641, 10751, 56823, 40810, 47700, 19809, 26001, 47196, 27112, 58149>>,
    <<20572, 48357, 14388, 18854, 54748, 42491, 35948, 28137, 47601, 43617>>,
    <<5644, 20139, 60334, 62661, 40138, 27074, 29147, 9105, 49067, 23183>>,
    <<35046, 49411, 46336, 12019, 62902, 56778, 23959, 58189, 46275, 59326>>,
    <<60614, 6794, 16288, 29424, 29461, 8621, 45323, 29015, 59875, 33070>>,
    <<10591, 52578, 60104, 46275, 32758, 8691, 554, 26446, 12388, 11539>>,
    <<49842, 58201, 22568, 39431, 53010, 25275, 24983, 12684, 36999, 15639>>,
    <<57157, 41695, 53128, 33036, 20417, 34803, 54391, 35074, 26407, 27513>>,
    <<31420, 49075, 21926, 44727, 48117, 51538, 2623, 15291, 18478, 59610>>,
    <<49331, 41294, 50902, 63628, 15100, 51629, 28467, 57841, 21978, 55721>>,
    <<43293, 58809, 26884, 10818, 36810, 328, 3578, 62368, 40507, 9543>>,
    <<21397, 41508, 14929, 63024, 45844, 2553, 24369, 9531, 58872, 34108>>,
    <<25042, 31038, 33773, 10795, 54906, 47900, 63442, 61374, 24469, 33538>>,
    <<55884, 6603, 50215, 38951, 7403, 44388, 58271, 13061, 49731, 25438>>,
    <<4213, 35061, 54933, 9430, 60619, 34428, 63854, 6169, 12425, 290>>,
    <<7328, 48332, 57835, 45337, 25069, 29657, 24173, 62432, 14061, 53732>>,
    <<1644, 47044, 8457, 64857, 33659, 58548, 18111, 15502, 23505, 50188>>,
    <<56564, 26154, 18470, 8711, 12884, 11986, 61700, 5335, 32699, 47624>>,
    <<47665, 51933, 22755, 24701, 26995, 54110, 58354, 23991, 11587, 12573>>,
    <<47363, 48442, 29285, 26810, 25913, 35821, 49070, 5868, 25786, 22749>>,
    <<3831, 37921, 58282, 32972, 29255, 13051, 34631, 58641, 217, 44388>>,
    <<19391, 11414, 42228, 23349, 3247, 25666, 12462, 48261, 35355, 24468>>,
    <<4505, 14916, 14769, 44386, 43470, 53518, 17755, 28494, 41542, 50828>>,
    <<12915, 32664, 57781, 63150, 50666, 26833, 62092, 20994, 26883, 36706>>,
    <<26562, 63830, 16421, 55894, 22503, 10175, 7873, 8628, 34013, 12660>>,
    <<32244, 53870, 17898, 3151, 26389, 51752, 55052, 29069, 43736, 33553>>,
    <<36609, 15521, 16256, 31758, 46533, 35395, 22736, 40605, 64143, 28367>>,
    <<53781, 17355, 19523, 21085, 52745, 39119, 32773, 60825, 43850, 45622>>,
    <<34072, 36095, 35103, 39186, 14427, 12414, 18853, 32490, 36204, 62591>>,
    <<59362, 37453, 26004, 52683, 8228, 52381, 3349, 26482, 48173, 52806>>,
    <<10791, 59056, 37911, 17900, 45024, 49455, 63361, 30641, 9145, 1190>>,
    <<59749, 24923, 32538, 13140, 48945, 59549, 14961, 62536, 25951, 54053>>,
    <<18408, 62795, 35788, 26357, 129, 62226, 18470, 7992, 24090, 32695>>,
    <<55283, 12235, 44043, 64665, 56970, 18012, 3131, 30687, 16108, 54366>>,
    <<62734, 12276, 34350, 7868, 1230, 3236, 38759, 47740, 13672, 13962>>,
    <<35756, 55821, 45433, 60384, 8858, 8318, 59971, 4042, 30333, 24666>>,
    <<60199, 31166, 23909, 10589, 14653, 13802, 36536, 62612, 39669, 18117>>,
    <<27135, 39891, 6942, 20350, 18885, 35342, 63956, 61711, 34844, 62303>>,
    <<39133, 63914, 59424, 381, 23980, 37441, 26067, 9370, 6813, 26550>>,
    <<37067, 36266, 47124, 16187, 35079, 55656, 54842, 5273, 1199, 56592>>,
    <<55344, 17915, 17924, 6083, 51543, 15126, 26541, 25805, 41243, 39656>>,
    <<37150, 1405, 25379, 24043, 49233, 59056, 12796, 62523, 59465, 37970>>,
    <<62983, 16093, 49114, 61491, 53918, 21984, 49421, 14392, 32869, 31087>>,
    <<52921, 6508, 6162, 61245, 22541, 11836, 49360, 791, 21014, 52785>>,
    <<35240, 51321, 56335, 5378, 40836, 46610, 5316, 23756, 27216, 14618>>,
    <<39489, 13694, 15291, 46116, 63839, 15531, 159, 27232, 46407, 15361>>,
    <<18498, 4130, 30527, 57278, 32200, 61481, 50640, 39875, 31118, 60118>>,
    <<61956, 25385, 22024, 32213, 13103, 6156, 45724, 30130, 31320, 12495>>,
    <<36409, 4690, 41698, 32396, 12062, 46434, 53825, 34336, 36534, 2065>>,
    <<32609, 6201, 28163, 36615, 47113, 37369, 3620, 52621, 24088, 44239>>,
    <<46138, 65010, 20033, 46323, 24449, 48399, 8422, 61955, 54245, 44438>>,
    <<38534, 33171, 35817, 58341, 16985, 38681, 44240, 44643, 61127, 41705>>,
    <<32845, 23747, 33003, 20973, 27287, 53766, 11694, 42477, 4076, 51182>>,
    <<63415, 22159, 27889, 21959, 61059, 31592, 45901, 32262, 25481, 23922>>,
    <<63328, 6124, 8710, 21595, 16218, 60050, 55068, 26228, 31803, 15633>>,
    <<4256, 28122, 13384, 5723, 19985, 29850, 51364, 45111, 32956, 27841>>,
    <<17546, 50147, 3182, 8351, 43959, 34493, 63127, 49049, 51655, 5037>>,
    <<46633, 43400, 60839, 57510, 56940, 58857, 4889, 13995, 60818, 55667>>,
    <<34526, 3386, 42313, 2401, 6411, 38815, 61359, 25419, 60580, 52334>>,
    <<8088, 63007, 12808, 6636, 54060, 39246, 58324, 45154, 49381, 13454>>,
    <<19055, 55172, 54807, 55498, 25167, 177, 5230, 37590, 11027, 17842>>,
    <<64396, 923, 38734, 38846, 21950, 49339, 2499, 18009, 59135, 51535>>,
    <<50545, 62825, 34954, 21827, 31885, 13424, 51390, 45738, 27412, 18939>>,
    <<34900, 40577, 11305, 45856, 12373, 3561, 32116, 61820, 64860, 50846>>,
    <<1070, 4912, 43373, 27655, 8487, 22917, 58707, 52429, 14608, 25299>>,
    <<36412, 28302, 61084, 18133, 15320, 63334, 819, 63564, 3273, 5346>>,
    <<21665, 24078, 50305, 27141, 22670, 22636, 10884, 56625, 63311, 32833>>,
    <<5534, 53141, 32045, 31615, 2809, 11554, 63136, 25276, 46440, 44517>>,
    <<59553, 4024, 40610, 8305, 6356, 56118, 19283, 41492, 24182, 62580>>,
    <<11158, 3985, 6671, 52695, 52114, 41346, 46094, 64102, 63074, 6456>>,
    <<10733, 59612, 23892, 38827, 52793, 7576, 44103, 53435, 44361, 16580>>,
    <<5616, 13358, 20466, 42564, 25419, 64351, 7543, 268, 27550, 26694>>,
    <<52608, 50568, 8717, 60223, 61142, 53210, 36676, 30032, 34444, 28447>>,
    <<38043, 13048, 40617, 64746, 11049, 22759, 47924, 38212, 8630, 18742>>,
    <<59949, 27481, 57182, 53722, 27725, 8037, 13697, 45472, 44263, 33598>>,
    <<61377, 9887, 39259, 44150, 42628, 15474, 59620, 64731, 34571, 12246>>,
    <<13878, 58609, 23889, 55052, 43401, 15988, 30100, 43121, 6512, 29139>>,
    <<57701, 43870, 64603, 29304, 49780, 14805, 44659, 31513, 47868, 35318>>,
    <<11170, 18884, 22737, 48058, 26588, 63452, 44088, 6314, 27231, 57934>>,
    <<39882, 29505, 19216, 23170, 35273, 38061, 5768, 47333, 34492, 43697>>,
    <<17451, 16420, 7058, 27402, 58683, 47486, 32970, 57842, 55510, 47663>>,
    <<63865, 56440, 30280, 8831, 13352, 19291, 2929, 30849, 25167, 17134>>,
    <<8071, 33095, 21036, 14312, 60728, 31399, 11354, 29528, 57103, 15298>>,
    <<57675, 7973, 43757, 21824, 6942, 18308, 40227, 9001, 4942, 34213>>,
    <<30978, 49391, 25676, 32332, 3902, 45526, 25683, 64390, 33115, 18331>>,
    <<6294, 47492, 40977, 59313, 36063, 17899, 4943, 61134, 41748, 32730>>,
    <<26286, 58395, 40750, 19493, 37875, 35398, 19616, 55349, 28202, 52668>>,
    <<49549, 8521, 13175, 11292, 21948, 21008, 57544, 3628, 63279, 51141>>,
    <<5834, 52168, 7898, 8669, 14361, 37623, 3523, 29164, 61432, 54396>>,
    <<61139, 9150, 58287, 48343, 62448, 58803, 48054, 2799, 65398, 19588>>,
    <<57395, 12335, 52118, 39161, 2462, 63138, 33376, 47065, 11618, 40650>>,
    <<45135, 26018, 64006, 62370, 27555, 40699, 24933, 62600, 6051, 52616>>,
    <<65018, 62568, 22215, 57938, 39168, 43819, 60985, 35755, 13281, 52329>>,
    <<43061, 41555, 55880, 20833, 11290, 23619, 4487, 59439, 39457, 54020>>,
    <<6209, 45718, 12567, 642, 5940, 41939, 4338, 34976, 49081, 54526>>,
    <<62577, 35922, 54034, 47881, 16417, 30226, 37566, 14926, 53219, 20507>>,
    <<53880, 14355, 21611, 55766, 43859, 22647, 31093, 59473, 33182, 35598>>,
    <<44686, 18673, 55919, 59797, 35214, 14165, 54311, 41487, 40106, 60153>>,
    <<42174, 1978, 4309, 7142, 5440, 52781, 28970, 18101, 56729, 30277>>,
    <<28346, 63937, 6132, 64241, 57813, 7838, 46829, 26288, 6236, 57765>>,
    <<24192, 11255, 26107, 12905, 10584, 27073, 14083, 52979, 38845, 64234>>,
    <<8375, 46991, 50679, 39159, 32476, 139, 34445, 8344, 36427, 52886>>,
    <<41841, 25059, 1292, 32182, 34016, 30381, 29712, 29698, 61988, 63515>>,
    <<32190, 5165, 57497, 26450, 61847, 26788, 58789, 6333, 1585, 15613>>,
    <<19143, 40116, 50210, 22844, 25676, 22032, 16270, 46421, 27281, 56889>>,
    <<25641, 35715, 11908, 4695, 9063, 55703, 15521, 32773, 32928, 17623>>,
    <<30875, 49139, 37932, 54249, 37970, 58712, 5897, 47387, 21930, 53290>>,
    <<23478, 60650, 45715, 1552, 64794, 12220, 39757, 23606, 20919, 335>>,
    <<3464, 39005, 48748, 39187, 40185, 61902, 5199, 27894, 49144, 58772>>,
    <<21357, 65370, 57871, 48019, 51991, 7013, 3738, 62405, 35697, 33457>>,
    <<22701, 17562, 59130, 24807, 62232, 33948, 16180, 50853, 44996, 33539>>,
    <<3390, 64592, 37513, 9282, 37103, 3380, 11903, 11856, 49642, 35860>>,
    <<30074, 15124, 11883, 54942, 14262, 15437, 65026, 13417, 14894, 15530>>,
    <<41400, 29732, 26141, 16639, 16326, 23882, 61638, 54938, 57391, 55214>>,
    <<11638, 28054, 25292, 45845, 52573, 3829, 3195, 9761, 1246, 27100>>,
    <<29655, 45225, 6183, 8213, 6654, 29618, 40119, 60163, 11136, 2418>>,
    <<31836, 63196, 5734, 64538, 34316, 7467, 41289, 12865, 21488, 3840>>,
    <<6781, 15795, 12066, 64986, 53164, 63943, 10659, 25972, 58938, 3227>>,
    <<48059, 30198, 35979, 2159, 7509, 32990, 59214, 925, 58576, 8096>>,
    <<4545, 3943, 40984, 1552, 45312, 17152, 52601, 17103, 42316, 37958>>,
    <<27375, 35095, 27848, 51867, 10700, 63529, 57439, 10594, 40312, 9936>>,
    <<26163, 56304, 19649, 36323, 44908, 30647, 58523, 57877, 42796, 36766>>,
    <<5063, 57353, 3405, 59533, 58814, 49363, 15922, 61236, 50192, 14595>>,
    <<64565, 59225, 18835, 22975, 56468, 64359, 40651, 32488, 19025, 48915>>,
    <<50301, 46053, 29464, 2568, 14255, 28232, 4740, 46963, 24256, 63883>>,
    <<18141, 62256, 18189, 61312, 48165, 37129, 29975, 4497, 177, 36838>>,
    <<34400, 14082, 61622, 13232, 30015, 5583, 1693, 30922, 27169, 46228>>,
    <<64226, 62994, 32934, 19255, 15929, 4985, 22552, 65082, 12909, 11705>>,
    <<19019, 30977, 17326, 28926, 29154, 56977, 27653, 2290, 19835, 13286>>,
    <<48854, 42779, 49458, 14408, 31059, 54706, 10105, 21383, 4855, 6314>>,
    <<24809, 41771, 31625, 36292, 11528, 19479, 33741, 616, 48790, 34351>>,
    <<11004, 22621, 2295, 23727, 41560, 25276, 1611, 50356, 58792, 4771>>,
    <<24235, 52490, 32193, 59211, 51260, 40230, 36040, 12777, 46905, 57666>>,
    <<57795, 48771, 27712, 62590, 43963, 30816, 3540, 30604, 18496, 13447>>,
    <<3922, 25947, 61435, 42086, 46218, 5590, 4340, 33071, 20512, 6966>>,
    <<13003, 38511, 64264, 26800, 22872, 40597, 21824, 52847, 19174, 16928>>,
    <<53764, 1416, 2987, 4829, 36468, 25134, 33347, 60768, 38905, 29355>>,
    <<2037, 11987, 28152, 53787, 9620, 30089, 1024, 49869, 32053, 21047>>,
    <<57731, 8793, 37753, 45027, 38989, 61981, 14392, 8843, 51480, 24460>>,
    <<29562, 59586, 19985, 19868, 1770, 20844, 58055, 5325, 31894, 33687>>,
    <<65362, 8640, 21316, 16639, 9039, 19519, 44910, 49262, 56280, 62656>>,
    <<13309, 55045, 53492, 6678, 64192, 32155, 62522, 55373, 20013, 10204>>,
    <<47787, 65107, 58147, 45614, 13143, 2201, 53675, 8989, 52092, 51829>>,
    <<7408, 35695, 26725, 55212, 49480, 38832, 17373, 21193, 15653, 17731>>,
    <<20123, 23617, 17746, 62866, 42185, 31998, 47407, 35526, 39813, 43582>>,
    <<52846, 37444, 26478, 11070, 16962, 20144, 8787, 18202, 4194, 31838>>,
    <<50197, 5325, 8252, 3192, 40246, 34495, 18898, 30352, 23536, 12493>>,
    <<13184, 5171, 63580, 57667, 9132, 2307, 52306, 1428, 1634, 41657>>,
    <<18395, 50970, 36182, 27636, 57470, 38683, 18151, 15891, 47856, 30101>>,
    <<56638, 30769, 49482, 46029, 62643, 20183, 55476, 65054, 4391, 38309>>,
    <<50581, 15576, 47139, 61467, 40470, 25981, 6310, 16705, 27091, 52142>>,
    <<31075, 2607, 5722, 8103, 62249, 8023, 61624, 50473, 12430, 42162>>,
    <<27397, 20011, 14555, 22672, 28058, 11218, 16571, 52852, 6893, 14927>>,
    <<46052, 41913, 16218, 9146, 26270, 59476, 28417, 23996, 25142, 47577>>,
    <<26976, 33125, 12585, 36967, 19588, 5171, 35977, 22340, 18881, 44988>>,
    <<39378, 1653, 5035, 54858, 5324, 57726, 62058, 61549, 1276, 56816>>,
    <<30290, 30397, 31370, 27209, 58701, 31444, 5459, 25090, 30163, 14006>>,
    <<3082, 15288, 22905, 31251, 36471, 27, 4510, 22332, 51105, 10609>>,
    <<60449, 56324, 58040, 5238, 48462, 63527, 45723, 48556, 19638, 39751>>,
    <<34554, 561, 36912, 33624, 19497, 54723, 57437, 5529, 44184, 7987>>,
    <<36742, 24911, 22310, 44643, 56311, 62553, 62610, 62048, 10948, 56260>>,
    <<48078, 51070, 13489, 10358, 46079, 50225, 62597, 19004, 57175, 34832>>,
    <<17645, 8470, 18463, 5930, 18943, 13637, 3692, 18866, 26084, 31401>>,
    <<42825, 24160, 63066, 27174, 61505, 53110, 24394, 9467, 8944, 8361>>,
    <<53662, 61229, 43579, 11575, 50624, 9602, 53026, 54598, 31181, 55353>>,
    <<18709, 60750, 31508, 29226, 31938, 59628, 13703, 52233, 63980, 18928>>,
    <<16217, 9366, 27317, 46111, 27530, 23162, 45491, 1296, 37931, 18420>>,
    <<18944, 60702, 5504, 57968, 8683, 53344, 32134, 57861, 30882, 24477>>,
    <<15871, 7691, 56960, 47497, 62423, 28035, 27724, 45489, 51292, 45635>>,
    <<34307, 46249, 45827, 46221, 3344, 56857, 13859, 22534, 48288, 65430>>,
    <<25410, 31802, 14573, 46669, 49435, 30945, 49614, 34615, 62359, 38450>>,
    <<20114, 60870, 59548, 38022, 56185, 26913, 11803, 26481, 10597, 5914>>,
    <<26470, 27211, 44102, 35037, 36488, 52127, 43917, 55857, 62107, 22331>>,
    <<26241, 61523, 57431, 23402, 26169, 64077, 5488, 2868, 34257, 55825>>,
    <<16868, 939, 2582, 64523, 38596, 10813, 53505, 8799, 43278, 65338>>,
    <<9758, 56463, 8836, 21614, 25737, 18295, 34083, 32624, 60726, 1977>>,
    <<12645, 21730, 36449, 22912, 64869, 64293, 15352, 38896, 43300, 28138>>,
    <<37488, 23672, 3352, 24086, 26225, 54199, 3129, 16440, 32397, 1775>>,
    <<28836, 36007, 52761, 12195, 43519, 62661, 24767, 50196, 29467, 23587>>,
    <<35750, 57222, 64561, 61015, 41478, 860, 56269, 31291, 50410, 27435>>,
    <<18912, 64165, 53298, 38210, 11265, 30494, 13973, 52983, 54403, 16558>>,
    <<13060, 62893, 15322, 8446, 40661, 33264, 23039, 32366, 21895, 31149>>,
    <<27018, 48884, 23697, 27242, 60413, 52894, 16925, 36818, 26410, 30259>>,
    <<7041, 13111, 43063, 7150, 38388, 595, 2959, 59966, 54008, 34791>>,
    <<13911, 53571, 12571, 51723, 10810, 31965, 21620, 22305, 40456, 8019>>,
    <<25913, 41893, 50229, 51818, 23179, 2276, 52926, 13777, 15427, 41390>>,
    <<57978, 37226, 1855, 11403, 22096, 5709, 3303, 8373, 38665, 35766>>,
    <<61387, 21762, 12999, 39738, 36076, 30198, 64442, 28600, 63384, 57691>>,
    <<63170, 21675, 28061, 30736, 9262, 9366, 58487, 53340, 43382, 8174>>,
    <<56538, 599, 35641, 61267, 7797, 8343, 11339, 34697, 22215, 59387>>,
    <<25979, 18384, 13813, 34286, 48888, 55935, 31501, 4931, 24405, 48347>>,
    <<33078, 12163, 10492, 2592, 17044, 18159, 4851, 37185, 17175, 54749>>,
    <<12920, 42570, 57829, 4778, 30022, 64045, 46117, 25554, 613, 17230>>,
    <<6102, 9389, 32571, 57528, 58904, 1707, 47115, 3689, 57687, 7136>>,
    <<63111, 56856, 52505, 45646, 45463, 33945, 55018, 61201, 37373, 16040>>,
    <<25794, 3900, 62039, 34702, 31599, 16601, 25309, 45889, 22258, 7520>>,
    <<4980, 25467, 42528, 50758, 12418, 46726, 16332, 46527, 1207, 24034>>,
    <<16977, 55013, 34100, 30434, 23392, 40031, 61414, 8304, 17740, 54775>>,
    <<20593, 7399, 36027, 48861, 33698, 60117, 64635, 15578, 43540, 21322>>,
    <<55799, 50761, 45258, 52729, 16422, 40267, 42911, 46699, 59879, 19067>>,
    <<25198, 21251, 31631, 29600, 33870, 21663, 14644, 30907, 29099, 16989>>,
    <<45403, 38806, 43540, 61943, 21493, 15204, 9654, 54954, 52959, 46284>>,
    <<55168, 22672, 54133, 62278, 31546, 58249, 34794, 4714, 43912, 30296>>,
    <<31884, 55189, 36799, 32264, 19536, 15416, 20117, 65530, 56963, 29904>>,
    <<33125, 62179, 57170, 7410, 33728, 25521, 14582, 8141, 50071, 3777>>,
    <<5777, 33706, 58324, 47601, 26348, 19913, 32515, 25400, 44452, 27516>>,
    <<55774, 54269, 3514, 46736, 45009, 53663, 23207, 34369, 3065, 39453>>,
    <<54817, 14806, 4589, 59227, 13908, 9039, 38335, 28701, 49660, 63655>>,
    <<5912, 45039, 13713, 32864, 56920, 45166, 52612, 48117, 6028, 12074>>,
    <<6904, 63110, 25845, 50084, 41491, 5833, 62779, 1430, 39377, 19137>>,
    <<50280, 27082, 188, 7638, 11421, 12617, 60215, 30596, 17148, 8960>>,
    <<2719, 35693, 61510, 45877, 39229, 13597, 42656, 54921, 55768, 26430>>,
    <<61864, 7328, 26904, 45083, 32004, 46381, 30793, 7655, 413, 3199>>,
    <<47800, 37092, 65443, 3244, 57189, 38238, 39106, 40390, 43202, 16546>>,
    <<25590, 21366, 37091, 41501, 10297, 38906, 45711, 2122, 3116, 45233>>,
    <<52743, 26629, 40325, 63574, 55772, 32383, 14012, 64, 42274, 54549>>,
    <<13075, 16277, 16964, 15559, 7477, 35228, 14285, 63352, 52187, 49975>>,
    <<4424, 11186, 18333, 56673, 51748, 38260, 40353, 36564, 25246, 65300>>,
    <<26422, 8382, 14280, 38103, 63015, 42067, 53991, 47951, 61323, 3357>>,
    <<60567, 56178, 17968, 53274, 27661, 46102, 35955, 28893, 56517, 32508>>,
    <<51886, 6848, 33158, 39262, 356, 8605, 28392, 20767, 54161, 48825>>,
    <<48908, 62665, 42140, 43799, 59960, 12278, 44573, 39939, 45415, 30310>>,
    <<15942, 46122, 47098, 49974, 50521, 57927, 676, 15734, 26411, 61296>>,
    <<10041, 55442, 14339, 38821, 47735, 54304, 61310, 4015, 834, 15510>>,
    <<8013, 50807, 56770, 64584, 2149, 38344, 8682, 31500, 50570, 7172>>,
    <<42999, 4014, 9477, 56780, 7322, 54782, 50839, 21143, 41545, 40400>>,
    <<48197, 61199, 40687, 32989, 63514, 63905, 15901, 45068, 42366, 65274>>,
    <<54232, 51989, 32154, 50333, 50671, 43642, 26788, 58403, 51600, 36279>>,
    <<31234, 15318, 30678, 40083, 38412, 4914, 19107, 36573, 62667, 34962>>,
    <<23628, 57422, 7187, 25267, 43979, 51659, 7247, 54399, 11708, 46076>>,
    <<3667, 12815, 22287, 5820, 50994, 46060, 19644, 24701, 41530, 61790>>,
    <<20816, 50258, 37107, 56991, 51673, 46139, 32614, 58979, 7878, 18418>>,
    <<53709, 42549, 34835, 49260, 9620, 56982, 50575, 45435, 40014, 47595>>,
    <<45136, 680, 4502, 34369, 61450, 61549, 43369, 13052, 17023, 46926>>,
    <<51545, 1719, 59044, 57640, 62957, 57018, 33934, 21734, 43635, 38143>>,
    <<10194, 2527, 36572, 46677, 39418, 12485, 21106, 51025, 10853, 35933>>,
    <<42443, 36071, 63095, 59425, 43268, 29710, 49213, 23788, 15702, 15381>>,
    <<33360, 34325, 36217, 28222, 63543, 28356, 34497, 21962, 15980, 12854>>,
    <<63931, 16375, 36125, 14382, 60449, 38950, 44884, 3009, 50813, 49185>>,
    <<47074, 8671, 41022, 32950, 33452, 50033, 27270, 44245, 15720, 49530>>,
    <<45437, 46134, 43752, 24787, 12868, 62279, 47387, 60837, 38756, 44365>>,
    <<39854, 47889, 43349, 5454, 10728, 19867, 40553, 13519, 60176, 46917>>,
    <<793, 15983, 63427, 2980, 15183, 3947, 34327, 52937, 31393, 15074>>,
    <<11087, 36773, 38355, 33750, 34990, 37369, 62557, 37459, 6526, 12207>>,
    <<50399, 23445, 43136, 40056, 58623, 10456, 8231, 52364, 53817, 7377>>,
    <<49745, 56167, 58561, 23789, 20967, 9450, 25746, 43344, 47599, 25866>>,
    <<17483, 2580, 15023, 41409, 37047, 15883, 47558, 29510, 54398, 26236>>,
    <<44923, 26863, 20190, 28066, 60243, 17138, 51459, 53856, 55738, 54515>>,
    <<31649, 34395, 961, 42754, 30666, 59358, 13769, 43423, 3660, 36042>>,
    <<32375, 62973, 19868, 64133, 39764, 63215, 36325, 60595, 37147, 61587>>,
    <<37312, 32151, 43871, 30141, 35968, 33070, 20932, 16592, 44162, 20>>,
    <<51833, 33006, 17384, 51905, 18242, 2799, 13109, 36860, 46717, 53684>>,
    <<63408, 44284, 36001, 18901, 55973, 56566, 12940, 34204, 20275, 34742>>,
    <<3868, 7557, 2507, 13379, 53402, 58781, 39302, 3132, 64785, 32164>>,
    <<60350, 19614, 59241, 2976, 37617, 50279, 53196, 31849, 39197, 37785>>,
    <<3381, 35144, 9458, 15462, 25396, 15415, 60844, 51291, 11448, 64338>>,
    <<15174, 17954, 44228, 39665, 13250, 60724, 8836, 24773, 18348, 9171>>,
    <<47744, 29712, 3359, 59036, 16254, 31742, 57843, 18056, 5447, 11504>>,
    <<24274, 62155, 50088, 17845, 37431, 44912, 9388, 47779, 53303, 6608>>,
    <<29494, 33541, 59347, 22418, 52204, 37572, 36508, 52411, 6326, 15687>>,
    <<925, 20206, 56445, 30600, 17309, 25850, 55633, 24756, 47239, 27805>>,
    <<31933, 23324, 45620, 21945, 61959, 9986, 24896, 27768, 4519, 5513>>,
    <<47333, 15549, 26964, 42492, 63264, 65056, 55011, 39674, 45616, 53325>>,
    <<13471, 48471, 54079, 34360, 28273, 4819, 54272, 42965, 17480, 39425>>,
    <<18640, 30577, 26708, 40221, 23040, 42355, 23938, 7059, 23938, 62781>>,
    <<19446, 46564, 19713, 6884, 26313, 57449, 37768, 37343, 63462, 36542>>,
    <<13709, 13451, 34023, 46209, 65396, 6205, 16569, 53436, 26388, 54794>>,
    <<7302, 9781, 9821, 58133, 43423, 34848, 1351, 28624, 43512, 40280>>,
    <<44323, 32559, 9637, 16773, 58020, 63740, 23117, 34784, 432, 38005>>,
    <<37033, 44018, 56888, 25210, 36097, 2001, 64863, 62273, 16857, 43854>>,
    <<16686, 16033, 45393, 8964, 22960, 12893, 5838, 18880, 49657, 45120>>,
    <<37633, 45554, 63070, 29043, 49200, 31840, 11335, 21407, 45244, 63818>>,
    <<15559, 44672, 816, 38255, 61546, 54244, 9832, 8969, 6936, 40602>>,
    <<46441, 64278, 32267, 10099, 30696, 36618, 54474, 61653, 55680, 49984>>,
    <<7580, 13414, 58931, 11855, 64798, 9332, 3887, 12551, 24433, 15545>>,
    <<14985, 63828, 22836, 62611, 42483, 46725, 29870, 54199, 6413, 27594>>,
    <<53413, 54197, 47156, 51883, 50140, 36168, 44225, 60876, 6045, 2585>>,
    <<21949, 12655, 8902, 56174, 25031, 59090, 48040, 7124, 3655, 61463>>,
    <<37435, 18931, 49097, 29744, 62261, 35167, 22649, 37894, 14881, 32463>>,
    <<57929, 55117, 845, 32447, 7534, 24659, 4597, 26296, 39451, 12098>>,
    <<26799, 45076, 63227, 9616, 10789, 61493, 21016, 58368, 1566, 38604>>,
    <<39540, 9658, 479, 35082, 24112, 13936, 627, 51537, 5953, 61469>>,
    <<24582, 15249, 5077, 37129, 35592, 12834, 42554, 36788, 60274, 54901>>,
    <<44894, 1136, 10277, 373, 4272, 63232, 32071, 9648, 34348, 2712>>,
    <<15080, 20511, 12052, 16572, 24395, 58537, 35776, 39679, 20619, 58876>>,
    <<8449, 30320, 61891, 28451, 42450, 55909, 39939, 57476, 7227, 63087>>,
    <<5549, 10357, 28146, 52607, 40858, 26894, 48021, 44509, 39789, 60192>>,
    <<45215, 34187, 46890, 8286, 46050, 47894, 57437, 43059, 61605, 7408>>,
    <<39407, 63943, 8069, 15407, 48460, 32994, 16542, 57163, 43440, 22819>>,
    <<18893, 19256, 8859, 12775, 11510, 11267, 61905, 3633, 5147, 45183>>,
    <<20853, 54804, 38169, 5824, 27085, 26288, 60602, 40176, 18720, 54859>>,
    <<21232, 42702, 1402, 53902, 57130, 57144, 39418, 41480, 25714, 9055>>,
    <<568, 7538, 20718, 24548, 2974, 24189, 34159, 7725, 57888, 2431>>,
    <<27071, 48174, 36341, 19193, 65141, 6973, 64077, 11929, 25855, 42134>>,
    <<12244, 23428, 20467, 58492, 21770, 2031, 48640, 28886, 47665, 804>>,
    <<36717, 55322, 18477, 34500, 6364, 18236, 49325, 22898, 41901, 63535>>,
    <<32555, 22293, 53718, 8552, 23163, 22176, 7410, 54478, 6301, 38589>>,
    <<22638, 6383, 8151, 37066, 57363, 8019, 61991, 224, 60790, 31347>>,
    <<58764, 44686, 60664, 9089, 21401, 3013, 11038, 30781, 55480, 47056>>,
    <<3094, 30383, 56297, 6029, 3417, 47641, 19785, 41841, 46224, 41087>>,
    <<56360, 30151, 56219, 41119, 50231, 41258, 28538, 5752, 63464, 58440>>,
    <<32011, 7418, 61496, 26705, 5504, 9349, 47749, 3682, 9304, 23602>>,
    <<13423, 9461, 45477, 32857, 44164, 18859, 12891, 49432, 27590, 11239>>,
    <<5608, 53683, 4626, 50395, 13868, 35642, 25828, 6634, 23720, 17315>>,
    <<37160, 43488, 1377, 37812, 5988, 62294, 24723, 36603, 39041, 26262>>,
    <<4911, 33799, 46770, 29642, 20057, 43978, 32150, 23481, 51419, 43879>>,
    <<10948, 9924, 37137, 16546, 64140, 36755, 5483, 9982, 37254, 31188>>,
    <<56821, 35595, 26453, 4631, 19545, 3121, 12895, 13520, 35098, 51083>>,
    <<28337, 16570, 64123, 33647, 59586, 14738, 4542, 30125, 25022, 42437>>,
    <<16381, 42397, 38636, 2468, 48337, 39866, 56930, 49578, 57492, 9697>>,
    <<3157, 7067, 14854, 24558, 43749, 11800, 18110, 41293, 38981, 4826>>,
    <<50358, 33685, 25337, 38961, 56357, 65022, 24907, 52442, 50532, 513>>,
    <<46151, 7240, 58760, 39515, 47098, 11860, 29274, 45142, 19056, 49991>>,
    <<41271, 1386, 48678, 59027, 57529, 274, 49222, 3195, 39549, 49340>>,
    <<12624, 25417, 56338, 1506, 44945, 52350, 34860, 25612, 57008, 23041>>,
    <<30681, 7008, 14790, 55175, 59926, 12728, 8734, 41457, 58847, 48541>>,
    <<4692, 58812, 10874, 14386, 28247, 53308, 4508, 28561, 19194, 41115>>,
    <<29005, 9476, 23587, 38309, 37150, 49949, 32617, 47650, 22494, 20239>>,
    <<13158, 25811, 27767, 63677, 53713, 57759, 1767, 24367, 44169, 22778>>,
    <<21341, 60114, 8930, 25525, 50608, 21060, 7228, 29478, 55697, 42397>>,
    <<47678, 35002, 12467, 16677, 45770, 26426, 44478, 14601, 31499, 25241>>,
    <<31092, 33173, 60013, 31955, 23497, 26043, 27193, 11582, 65262, 38984>>,
    <<61375, 41045, 11424, 24783, 9205, 9546, 47323, 7732, 57659, 54835>>,
    <<24116, 46125, 46536, 5983, 19626, 58694, 1119, 6539, 44836, 59297>>,
    <<22053, 55518, 26627, 59557, 36604, 33821, 45844, 49500, 65463, 15593>>,
    <<56241, 57919, 40285, 37381, 49137, 9140, 23597, 16605, 38605, 35282>>,
    <<45493, 58536, 28669, 51706, 42894, 37563, 61863, 58912, 1407, 56254>>,
    <<62986, 18722, 10010, 63938, 41692, 10215, 20476, 5522, 51489, 30477>>,
    <<35182, 21822, 58323, 46076, 32844, 35310, 21197, 4219, 49687, 46206>>,
    <<12544, 52865, 34534, 3482, 31799, 6003, 49384, 12781, 6595, 24714>>,
    <<35993, 46433, 37057, 3648, 25426, 36393, 59543, 53011, 10281, 53467>>,
    <<55151, 41319, 34469, 55699, 43948, 56654, 50332, 30757, 40479, 22296>>,
    <<56443, 60814, 25662, 61719, 7251, 53697, 58843, 41234, 15677, 23175>>,
    <<64931, 26508, 43112, 42376, 14743, 17040, 27711, 46348, 39426, 55454>>,
    <<28718, 34610, 65247, 8333, 22859, 33578, 31342, 20085, 21687, 7051>>,
    <<34985, 44468, 29781, 20485, 53319, 49329, 21022, 3379, 20270, 5340>>,
    <<4390, 17626, 9440, 22206, 50066, 50169, 27277, 64885, 49503, 3804>>,
    <<17566, 26651, 22616, 28366, 15364, 13298, 22749, 55965, 25204, 37204>>,
    <<38617, 51614, 16793, 61772, 58043, 55450, 16695, 29238, 38019, 20091>>,
    <<32333, 13373, 45432, 41938, 36303, 55561, 47343, 53718, 7663, 54118>>,
    <<6792, 32219, 12754, 59356, 16861, 49806, 31563, 60412, 19960, 58877>>,
    <<5487, 54767, 12140, 34411, 16576, 63229, 38270, 39046, 26380, 9347>>,
    <<50890, 3066, 9243, 26574, 4442, 12549, 15087, 16119, 34073, 16325>>,
    <<2745, 17824, 8059, 1424, 361, 62286, 35132, 43514, 6192, 47374>>,
    <<685, 19587, 16725, 19483, 18700, 44585, 22248, 59802, 8673, 60980>>,
    <<16565, 60879, 29819, 6356, 13516, 39710, 17710, 47795, 40208, 11144>>,
    <<32003, 29380, 45979, 55620, 41456, 11901, 49250, 47373, 30392, 37294>>,
    <<64526, 12940, 27948, 55602, 3644, 35268, 1783, 14769, 43025, 58160>>,
    <<28982, 40574, 27749, 14862, 11818, 32506, 17396, 13357, 45060, 44752>>,
    <<31388, 8426, 60581, 11109, 18738, 64154, 65262, 33429, 18271, 56450>>,
    <<12411, 2442, 30649, 52943, 36440, 21944, 37743, 37096, 28200, 19462>>,
    <<36329, 35704, 41549, 20701, 43526, 52717, 44376, 15736, 30393, 14315>>,
    <<35892, 13293, 35460, 11094, 12885, 21458, 8904, 47352, 17318, 58028>>,
    <<14565, 28326, 35523, 41971, 52708, 5026, 1092, 44967, 35970, 44394>>,
    <<61097, 64636, 22622, 3332, 5751, 36166, 28565, 64198, 58973, 34913>>,
    <<65145, 57076, 20090, 51053, 37520, 49765, 10031, 51571, 37924, 24343>>,
    <<12622, 15481, 39212, 7120, 64009, 53160, 59197, 23939, 10613, 38253>>,
    <<32859, 24703, 11847, 50205, 62342, 32001, 16770, 32250, 14973, 18828>>,
    <<51463, 44581, 28094, 6162, 5661, 11209, 1682, 34499, 31699, 4675>>,
    <<22603, 47953, 27460, 36858, 58730, 52754, 5819, 62914, 38539, 41161>>,
    <<18925, 24056, 52467, 10020, 59187, 34161, 21156, 14104, 42047, 14303>>,
    <<60325, 28831, 28746, 33705, 33935, 56780, 37080, 3947, 44930, 27210>>,
    <<28417, 2334, 2254, 2784, 19018, 6886, 34944, 15124, 47966, 60981>>,
    <<5386, 31833, 59875, 46312, 41942, 42328, 30208, 60227, 10549, 19756>>,
    <<51863, 60913, 27606, 18979, 16641, 48718, 9520, 20831, 30193, 32782>>,
    <<51998, 43475, 35986, 11089, 45790, 24390, 58492, 28952, 7110, 21398>>,
    <<6112, 24932, 55434, 56329, 46431, 32183, 2522, 54135, 48985, 12887>>,
    <<53440, 21090, 6365, 29069, 992, 49817, 32179, 37670, 12592, 59684>>,
    <<33321, 58899, 49025, 8166, 59051, 49905, 49956, 23370, 65216, 14860>>,
    <<34753, 292, 18639, 63546, 48801, 22520, 31532, 51390, 2148, 50534>>,
    <<30401, 58643, 54053, 44986, 45981, 34859, 51294, 37031, 8634, 63921>>,
    <<3627, 55198, 19697, 15725, 40167, 39398, 23146, 36911, 1080, 18614>>,
    <<33587, 798, 1866, 60322, 10672, 1433, 65504, 23671, 50571, 21819>>,
    <<41433, 49002, 61336, 40771, 20080, 25596, 51249, 58027, 14948, 32010>>,
    <<35298, 23062, 34410, 12339, 46485, 50139, 2831, 49966, 47429, 29536>>,
    <<9779, 26922, 25782, 28145, 29029, 45196, 2967, 16214, 51459, 26984>>,
    <<9161, 38473, 32063, 31062, 22881, 27388, 65247, 40000, 58475, 56382>>,
    <<26716, 46615, 12997, 45481, 3907, 63334, 31040, 36191, 30227, 31434>>,
    <<1502, 16191, 25235, 55333, 54721, 4952, 45982, 15206, 26239, 48551>>,
    <<55995, 6270, 26581, 63302, 50881, 60933, 31033, 38120, 60919, 778>>,
    <<1927, 49634, 6932, 16338, 30149, 2518, 4846, 21831, 43781, 53403>>,
    <<842, 20767, 33960, 50281, 23408, 57749, 62691, 1774, 3798, 51168>>,
    <<12261, 21635, 32377, 10553, 29179, 26373, 63129, 36120, 50576, 63300>>,
    <<28651, 56064, 62145, 61165, 26274, 56455, 11464, 55409, 35498, 10059>>,
    <<3033, 37556, 32639, 61013, 63557, 64765, 6899, 38267, 21512, 65122>>,
    <<56244, 22881, 57462, 58924, 18640, 56612, 60169, 28448, 24136, 28873>>,
    <<31781, 58897, 55012, 6257, 18978, 23746, 11844, 31556, 52827, 7243>>,
    <<25626, 33218, 58814, 41754, 14237, 16045, 4373, 40388, 33774, 50069>>,
    <<23739, 37401, 53405, 48448, 44024, 2438, 1857, 784, 52416, 21765>>,
    <<56096, 9614, 11827, 10145, 33749, 49708, 39829, 61341, 38459, 54537>>,
    <<63472, 13825, 55730, 3978, 37090, 37984, 13559, 25943, 58313, 26748>>,
    <<28712, 59190, 2222, 51739, 1768, 56272, 53233, 14157, 59177, 37115>>,
    <<41751, 7262, 16881, 36933, 13455, 14961, 41941, 16323, 35423, 43849>>,
    <<13127, 7869, 19798, 60211, 49077, 44815, 58751, 35624, 2418, 14682>>,
    <<34624, 30792, 62498, 2818, 63420, 36484, 21487, 10319, 34705, 21653>>,
    <<22629, 51912, 432, 50642, 49399, 45561, 11117, 9177, 21103, 23396>>,
    <<53782, 25007, 15419, 27906, 35950, 15157, 40152, 17711, 41131, 48779>>,
    <<4161, 10799, 4100, 51559, 12929, 29009, 48545, 17207, 59011, 5387>>,
    <<38913, 61448, 43191, 48454, 58999, 16337, 22372, 47496, 56483, 51045>>,
    <<19608, 53425, 1715, 41964, 11912, 25612, 49346, 60316, 39597, 43193>>,
    <<52946, 31536, 24333, 6328, 62339, 11103, 23823, 8849, 10584, 61904>>,
    <<39801, 65005, 24735, 1651, 12955, 13395, 29198, 48235, 177, 55623>>,
    <<22195, 55297, 46062, 9937, 59418, 31005, 41181, 43492, 35199, 33031>>,
    <<11674, 4882, 11693, 27684, 12221, 36, 39542, 57725, 22523, 17883>>,
    <<22389, 3018, 5988, 12880, 11295, 17552, 52147, 30058, 13629, 6574>>,
    <<56494, 33361, 61698, 62237, 55495, 30446, 43566, 59936, 23697, 47624>>,
    <<51064, 23623, 64413, 45737, 33517, 19780, 30501, 65467, 4010, 58256>>,
    <<51286, 28283, 6182, 61013, 31932, 1897, 24044, 18584, 22775, 24426>>,
    <<34379, 14154, 47660, 60483, 53889, 722, 38200, 60199, 1003, 6357>>,
    <<54525, 44989, 5797, 41416, 51664, 55369, 36077, 11273, 24722, 9110>>,
    <<1694, 61630, 27284, 45648, 25183, 5555, 18337, 57212, 22579, 7115>>,
    <<14945, 36451, 26260, 32136, 3247, 9875, 22631, 7792, 64814, 23722>>,
    <<55259, 49316, 12465, 36116, 8833, 50510, 42118, 23289, 24614, 31923>>,
    <<6811, 38152, 46592, 15208, 56830, 937, 51403, 50365, 17288, 13211>>,
    <<23945, 18030, 43015, 65450, 58372, 18878, 60526, 2565, 44925, 27011>>,
    <<39028, 9105, 22574, 6487, 32911, 40124, 21292, 61565, 62676, 62717>>,
    <<39423, 10192, 7667, 12047, 59273, 29660, 18115, 29110, 49678, 62726>>,
    <<24204, 21239, 33322, 21331, 61318, 38376, 37970, 18459, 17445, 48649>>,
    <<14071, 61846, 39724, 35718, 10422, 22778, 63232, 17070, 50945, 59512>>,
    <<59835, 27114, 59198, 24535, 42471, 32213, 17396, 49478, 11879, 39167>>,
    <<43716, 22079, 30001, 40494, 65381, 48312, 44221, 38761, 13916, 43330>>,
    <<11747, 4168, 22671, 31117, 38911, 26009, 40956, 62954, 54447, 54662>>,
    <<13370, 34398, 63476, 40167, 248, 45784, 60853, 27166, 2367, 9566>>,
    <<18423, 58496, 39938, 30747, 49223, 18900, 9917, 33527, 55350, 52552>>,
    <<38090, 6817, 3521, 36517, 52565, 34293, 58212, 22936, 24445, 37678>>,
    <<28636, 44985, 32263, 38449, 46042, 50216, 18732, 43796, 29708, 1018>>,
    <<8416, 6785, 36983, 56641, 12540, 56071, 61047, 3301, 14521, 63392>>,
    <<5785, 46015, 7018, 42964, 40338, 54591, 33459, 20887, 35144, 11642>>,
    <<62471, 13089, 61525, 48296, 60133, 51770, 16568, 2278, 6193, 49007>>,
    <<64628, 22741, 25606, 46620, 35638, 32240, 53447, 3118, 36219, 56963>>,
    <<49433, 55825, 29301, 9388, 8456, 6270, 41305, 29682, 750, 32287>>,
    <<28511, 17075, 44606, 54865, 55056, 38156, 33503, 54718, 267, 17796>>,
    <<61249, 79, 46479, 29498, 16294, 54211, 19946, 9145, 58051, 17641>>,
    <<34299, 40902, 60468, 25440, 26754, 23411, 65207, 2765, 50922, 51628>>,
    <<31957, 6998, 33102, 12282, 36275, 57838, 48695, 36606, 51558, 39139>>,
    <<17985, 33737, 48071, 58055, 35813, 3569, 23450, 51527, 35523, 5874>>,
    <<9646, 9720, 11717, 14499, 43129, 3989, 49911, 40283, 18987, 29327>>,
    <<11235, 37340, 53567, 56483, 48324, 50811, 39246, 57991, 41988, 17098>>,
    <<37111, 61220, 39854, 50929, 13209, 2333, 40959, 12460, 21612, 29211>>,
    <<21444, 28165, 38868, 23988, 12282, 26453, 27321, 32324, 59833, 5952>>,
    <<34665, 29582, 17709, 25310, 58607, 27758, 18367, 64732, 24738, 37687>>,
    <<21267, 44052, 63047, 49617, 25951, 23172, 6364, 7451, 27945, 35554>>,
    <<27445, 13762, 35113, 27947, 44759, 29633, 4474, 267, 45761, 30373>>,
    <<16930, 61008, 41247, 48773, 8460, 30977, 36141, 57599, 27677, 49100>>,
    <<47962, 15910, 52020, 32839, 5059, 29926, 30522, 39964, 55041, 53286>>,
    <<1717, 47400, 39260, 7186, 36642, 21977, 20929, 4307, 62200, 46059>>,
    <<34386, 58051, 4629, 63408, 48402, 10059, 59305, 30088, 2207, 64695>>,
    <<54884, 55830, 63761, 58955, 33865, 5364, 13263, 21974, 15120, 26540>>,
    <<21987, 49542, 56948, 10293, 3531, 56550, 62109, 59882, 30250, 39827>>,
    <<10221, 62422, 49123, 22774, 60968, 16295, 26007, 50017, 36086, 30531>>,
    <<37725, 19143, 34222, 42734, 20755, 48501, 51080, 49671, 44615, 26281>>,
    <<13554, 11556, 59367, 57005, 35063, 58725, 27663, 48814, 56631, 9415>>,
    <<39632, 15803, 31326, 1662, 41154, 40334, 5412, 49390, 23780, 34582>>,
    <<46466, 65067, 4777, 31072, 4758, 46739, 1738, 33674, 14537, 42618>>,
    <<21105, 39301, 43236, 54235, 31950, 34060, 20830, 43376, 7304, 27536>>,
    <<7131, 43516, 37703, 52193, 39661, 16806, 24048, 46732, 35275, 31453>>,
    <<20937, 30566, 17605, 2301, 18457, 12475, 27408, 23506, 34056, 28614>>,
    <<46230, 5253, 36329, 43718, 4783, 40941, 35242, 22317, 47414, 34623>>,
    <<62946, 13512, 6246, 26157, 61951, 10938, 22318, 25440, 60497, 30347>>,
    <<29109, 58798, 4935, 60776, 59521, 53795, 58598, 46432, 53731, 5086>>,
    <<44724, 43414, 55614, 21698, 42779, 51460, 54609, 55229, 54415, 62088>>,
    <<64543, 40940, 48080, 35138, 43217, 46085, 61128, 62770, 32980, 48687>>,
    <<61461, 26762, 56406, 601, 56773, 29563, 44502, 10680, 14974, 22318>>,
    <<20952, 30441, 45756, 9848, 17534, 11091, 55323, 63404, 6147, 43293>>,
    <<2051, 58600, 56367, 5373, 39097, 37470, 17999, 61280, 25553, 55922>>,
    <<31281, 5458, 4565, 45810, 34540, 13131, 48055, 4094, 43077, 23294>>,
    <<35867, 25057, 58810, 44417, 11514, 600, 15638, 34481, 11517, 2956>>,
    <<42210, 1112, 3383, 46637, 26954, 52789, 6602, 53764, 33431, 12149>>,
    <<23300, 2919, 15551, 37683, 40086, 1415, 318, 9443, 32198, 56030>>,
    <<39735, 62849, 48681, 32623, 21285, 39443, 35219, 13399, 19183, 49349>>,
    <<14656, 43228, 11310, 32436, 44696, 35999, 29377, 28904, 21976, 65077>>,
    <<19138, 64553, 5850, 8078, 28060, 27978, 65465, 13315, 12801, 51864>>,
    <<51120, 38634, 49848, 29978, 16326, 40345, 60769, 26827, 8747, 5391>>,
    <<30550, 1091, 43747, 33943, 16132, 54190, 62316, 46035, 13730, 42598>>,
    <<9858, 7300, 5776, 58670, 23094, 33683, 64614, 4553, 50475, 61968>>,
    <<40970, 19142, 47678, 33474, 28919, 7930, 60425, 50117, 5998, 8416>>,
    <<43797, 21912, 10550, 1506, 62383, 50910, 18279, 54194, 15721, 19849>>,
    <<7893, 52322, 41758, 52561, 22355, 7591, 33804, 30386, 53755, 61885>>,
    <<44790, 53943, 49695, 15211, 55857, 61996, 36194, 5169, 3478, 22714>>,
    <<28805, 25554, 20547, 26386, 24505, 44612, 54180, 58606, 5008, 30779>>,
    <<6008, 64793, 65528, 55959, 13521, 3351, 27800, 5600, 25813, 18697>>,
    <<28078, 23645, 6705, 53726, 46051, 19103, 11618, 18871, 41560, 30186>>,
    <<16534, 25903, 7433, 30456, 7050, 17494, 30166, 53481, 30770, 34843>>,
    <<20442, 43763, 6754, 38517, 40468, 63392, 20097, 61642, 29958, 47910>>,
    <<36926, 62665, 46094, 15066, 61181, 57348, 38391, 49210, 18138, 35469>>,
    <<54401, 52181, 29169, 39748, 53329, 561, 29820, 6540, 53632, 35296>>,
    <<16876, 58050, 52463, 33714, 27223, 64455, 40215, 20714, 2432, 33059>>,
    <<51254, 23697, 23290, 17304, 37527, 15696, 19536, 4947, 14933, 51184>>,
    <<36949, 20241, 64627, 60906, 895, 23943, 59152, 34766, 26063, 23511>>,
    <<41225, 36354, 5638, 54533, 2518, 23274, 13510, 41414, 10470, 47333>>,
    <<25597, 16532, 46614, 13822, 45524, 19609, 47072, 24776, 17894, 64134>>,
    <<18778, 48194, 8551, 51796, 30150, 45871, 39041, 60409, 49346, 58538>>,
    <<34083, 56965, 855, 35786, 30588, 27304, 63327, 22388, 23259, 59765>>,
    <<63633, 11074, 41869, 2614, 61075, 1263, 34535, 30694, 41555, 10659>>,
    <<51292, 10032, 18249, 34778, 7236, 4803, 30782, 63203, 36401, 11147>>,
    <<11077, 47700, 20819, 65193, 5701, 60953, 62827, 37031, 16207, 15240>>,
    <<41661, 44955, 12676, 56526, 30561, 14840, 64639, 32843, 24524, 50807>>,
    <<11671, 32639, 44581, 45747, 26428, 10215, 24129, 50626, 22263, 4751>>,
    <<29910, 24147, 32966, 55211, 58939, 8366, 18124, 20032, 40150, 20186>>,
    <<60785, 55431, 23765, 12385, 27447, 43044, 20988, 46948, 34279, 58097>>,
    <<57681, 61339, 20777, 13280, 5160, 64835, 22305, 12715, 26598, 50438>>,
    <<43761, 2579, 40002, 2452, 34785, 34485, 12014, 5308, 2690, 5697>>,
    <<24267, 54198, 14875, 14835, 12277, 25775, 31254, 6185, 47863, 60551>>,
    <<27604, 35636, 29405, 23656, 16351, 61379, 58327, 1332, 64934, 37476>>,
    <<32699, 31873, 7291, 44502, 9105, 32636, 40017, 34332, 18306, 41503>>,
    <<3896, 64381, 24556, 36243, 20632, 35184, 4680, 7062, 2638, 40334>>,
    <<46475, 11849, 41750, 42622, 65116, 35753, 59569, 20675, 6039, 40930>>,
    <<16691, 21121, 21256, 3794, 58100, 26408, 6789, 20527, 25218, 56795>>,
    <<8694, 57153, 55964, 31376, 64165, 50284, 63474, 41438, 60075, 55451>>,
    <<61981, 35517, 3072, 22691, 56190, 17384, 51617, 59210, 64694, 12518>>,
    <<34241, 24284, 52055, 47241, 11336, 7482, 46912, 416, 24347, 39075>>,
    <<57025, 6914, 60442, 20010, 19274, 21913, 57294, 26738, 46510, 7348>>,
    <<34351, 11071, 49443, 51916, 42325, 32777, 61685, 23590, 47072, 47151>>,
    <<39347, 57329, 4374, 25011, 6489, 55063, 25100, 60604, 48519, 35973>>,
    <<36351, 39906, 7441, 51313, 20368, 23975, 7688, 39004, 51573, 38523>>,
    <<50057, 30105, 8884, 30980, 52554, 44460, 53272, 62715, 48358, 27170>>,
    <<2540, 35417, 43004, 36764, 59480, 28410, 40414, 60237, 39712, 46865>>,
    <<5956, 187, 34578, 27725, 37079, 14008, 11758, 36598, 32909, 55473>>,
    <<29188, 10361, 35374, 7210, 36789, 15207, 44387, 2996, 38968, 46178>>,
    <<53429, 49834, 51029, 11954, 52453, 39440, 48672, 5353, 21476, 55258>>,
    <<63949, 39337, 1323, 8919, 3323, 42616, 63745, 29991, 57284, 64608>>,
    <<42886, 31925, 55664, 16085, 14587, 23865, 21560, 2612, 16473, 46483>>,
    <<19067, 48004, 28416, 8070, 64507, 46811, 56379, 56566, 63511, 2220>>,
    <<22687, 20291, 58585, 21211, 50632, 60730, 46690, 19840, 63064, 24238>>,
    <<4904, 318, 56387, 48017, 32534, 17584, 23544, 22889, 7235, 6977>>,
    <<56516, 52364, 41418, 4920, 37287, 3773, 18653, 2754, 20209, 17569>>,
    <<4791, 12446, 63571, 20316, 62317, 25177, 24724, 46855, 31963, 3075>>,
    <<24986, 30321, 54888, 3231, 28513, 46954, 3924, 47281, 11017, 40220>>,
    <<17355, 50008, 58074, 64159, 26824, 39547, 53138, 12748, 57055, 4069>>,
    <<62003, 15142, 42541, 40074, 16851, 25240, 26076, 5400, 34693, 32139>>,
    <<65397, 48113, 32344, 59783, 61805, 61138, 63662, 8615, 56897, 50152>>,
    <<25202, 58405, 4137, 11696, 34964, 55051, 54972, 1694, 64058, 55093>>,
    <<42986, 37635, 42145, 33494, 25435, 18418, 58769, 31862, 23137, 56711>>,
    <<31867, 46519, 58554, 8204, 12449, 63615, 22311, 50790, 26040, 4470>>,
    <<45985, 40736, 43577, 41045, 42518, 46340, 61735, 4185, 16101, 61514>>,
    <<5405, 18471, 23673, 50656, 3456, 57956, 5569, 57369, 47123, 62266>>,
    <<42375, 22462, 8190, 18162, 63657, 63747, 15112, 55229, 45556, 15393>>,
    <<50022, 35746, 28521, 1369, 39685, 32273, 8101, 58917, 56552, 13674>>,
    <<43288, 4990, 51164, 47504, 48006, 55294, 15416, 51059, 25462, 51832>>,
    <<41404, 59265, 45800, 1397, 54522, 29304, 14267, 23647, 15340, 34371>>,
    <<36496, 13938, 28185, 21961, 53443, 13156, 33506, 22901, 46880, 11792>>,
    <<63037, 37233, 52414, 49474, 10347, 63693, 49155, 40974, 41462, 34624>>,
    <<39931, 43247, 15353, 32953, 40293, 58561, 28126, 14055, 8862, 40301>>,
    <<15850, 30786, 48554, 58226, 26934, 42300, 11210, 57386, 15181, 13309>>,
    <<59331, 63808, 55070, 30991, 13637, 46493, 35550, 13143, 44031, 12567>>,
    <<42473, 61814, 49681, 19075, 36379, 52219, 23350, 64324, 63785, 16746>>,
    <<15064, 14901, 26288, 39281, 10940, 17353, 17740, 37673, 6056, 4909>>,
    <<361, 6755, 55430, 49058, 9563, 49159, 15059, 13275, 1171, 12568>>,
    <<18614, 5431, 48506, 65042, 1370, 17875, 55689, 5668, 49554, 12022>>,
    <<55210, 58301, 42008, 56102, 8130, 47372, 26268, 42553, 40304, 58836>>,
    <<64144, 43120, 46604, 15588, 10503, 37299, 42497, 9223, 26330, 251>>,
    <<25200, 9058, 23159, 8212, 13368, 49168, 34097, 5750, 23495, 65473>>,
    <<16920, 18460, 37585, 40437, 41938, 30523, 33167, 24978, 51320, 11804>>,
    <<3302, 22315, 2228, 6919, 44307, 13526, 944, 33342, 27687, 35950>>,
    <<61337, 20435, 40614, 39738, 54835, 25033, 38324, 21817, 52570, 51413>>,
    <<13292, 58530, 18393, 42326, 16353, 44074, 6799, 64466, 16059, 23514>>,
    <<56789, 41566, 22786, 22373, 34941, 13344, 53783, 41309, 61536, 58959>>,
    <<28307, 40820, 37140, 57634, 34584, 5582, 17490, 48276, 32829, 45317>>,
    <<30891, 17634, 20876, 25343, 49226, 53316, 62624, 32531, 27045, 38179>>,
    <<36090, 40967, 14587, 62117, 2941, 3669, 25990, 64353, 59775, 29922>>,
    <<62705, 9705, 46094, 63742, 20509, 5294, 33768, 65087, 20464, 48823>>,
    <<33557, 49599, 13283, 19822, 32641, 2417, 5748, 30645, 2972, 65390>>,
    <<33556, 47942, 59254, 54159, 25310, 26642, 24086, 15071, 8769, 44835>>,
    <<62582, 8013, 45385, 38795, 3943, 52221, 21077, 54595, 29170, 30786>>,
    <<24092, 41025, 28730, 56989, 64214, 55548, 53094, 43387, 5635, 44430>>,
    <<20711, 59794, 2600, 18599, 62446, 2065, 3380, 63321, 12200, 37572>>,
    <<62238, 19430, 30549, 11021, 64232, 21964, 24198, 40069, 35746, 50065>>,
    <<29758, 30148, 2878, 6469, 30941, 14460, 44513, 28913, 35910, 8077>>,
    <<65432, 27171, 586, 43732, 17025, 42341, 59125, 40067, 34881, 28024>>,
    <<65332, 7894, 29594, 56832, 26394, 20671, 63643, 40384, 30683, 417>>,
    <<61961, 13940, 57220, 19743, 51795, 45097, 16371, 39139, 41477, 27445>>,
    <<22793, 10168, 28993, 7259, 35650, 63260, 888, 14406, 59167, 37727>>,
    <<34458, 55334, 15947, 57140, 1758, 524, 37178, 2247, 1977, 1249>>,
    <<11465, 2713, 34697, 13472, 61654, 36639, 32505, 16567, 52250, 34970>>,
    <<27730, 44110, 25426, 20652, 5260, 46959, 15507, 63716, 17325, 58294>>,
    <<18724, 4954, 45246, 13372, 36249, 45920, 46075, 59505, 55998, 29962>>,
    <<8427, 48479, 56532, 55938, 60325, 27788, 49315, 33998, 37656, 30324>>,
    <<5003, 37124, 35189, 43157, 50747, 58475, 25100, 60659, 18170, 14719>>,
    <<50225, 41480, 24708, 15758, 63398, 41590, 12839, 23383, 25538, 44660>>,
    <<32217, 44351, 35555, 24462, 335, 3891, 55764, 13792, 28966, 37767>>,
    <<39213, 46770, 50873, 42367, 52991, 61158, 44086, 21403, 17204, 46728>>,
    <<42935, 42611, 56555, 36944, 26511, 53250, 9665, 57642, 43191, 14596>>,
    <<61419, 14618, 289, 58228, 23443, 13837, 42430, 61128, 8872, 4615>>,
    <<9747, 31497, 3467, 18213, 24701, 27889, 8287, 29351, 39571, 60031>>,
    <<65501, 3315, 17086, 52637, 11781, 36522, 5841, 40799, 55223, 16897>>,
    <<27428, 52302, 39281, 4427, 28858, 48362, 46651, 54274, 65315, 5842>>,
    <<61890, 8181, 6663, 40853, 3914, 30666, 9936, 38390, 28980, 49850>>,
    <<23420, 12291, 36907, 17757, 29968, 24384, 274, 33610, 49717, 54586>>,
    <<8436, 55324, 7831, 16962, 3395, 41903, 30777, 28881, 5080, 52173>>,
    <<36983, 58086, 37737, 61826, 37730, 26588, 42626, 43173, 38045, 10782>>,
    <<16416, 53623, 57138, 12863, 25541, 59950, 4262, 33496, 16693, 43971>>,
    <<2179, 50110, 3336, 7584, 37009, 57241, 50436, 29803, 59800, 51538>>,
    <<27048, 49172, 4759, 43750, 1380, 22174, 30458, 61995, 18023, 58171>>,
    <<39703, 10870, 1951, 47909, 36546, 25942, 43693, 31410, 40813, 17855>>,
    <<30068, 2194, 11989, 49954, 53899, 51374, 7590, 2502, 35178, 6666>>,
    <<29892, 52295, 40078, 46471, 47698, 15106, 39333, 52069, 47447, 43557>>,
    <<14106, 18568, 10764, 53848, 50190, 48885, 54451, 63056, 50693, 22744>>,
    <<6570, 51949, 4113, 33757, 17014, 8187, 23495, 49503, 39988, 45588>>,
    <<16951, 61624, 11987, 15265, 6852, 19082, 23571, 22610, 32302, 54920>>,
    <<38811, 2161, 4486, 49328, 10895, 47540, 17056, 53605, 34886, 53105>>,
    <<64922, 27968, 30376, 44077, 29299, 61802, 59644, 10005, 30641, 17597>>,
    <<57581, 34215, 55233, 33406, 19324, 27542, 17178, 12803, 1431, 14968>>,
    <<60915, 51570, 8755, 33168, 11480, 15354, 19053, 8972, 21416, 5479>>,
    <<42422, 20847, 42281, 49115, 27371, 64288, 25227, 25446, 47978, 33670>>,
    <<56438, 52160, 39807, 47433, 21248, 23093, 46975, 61368, 35854, 18436>>,
    <<22039, 19477, 47369, 12590, 25663, 44861, 55360, 19063, 23990, 43152>>,
    <<29664, 7963, 32076, 21287, 30040, 44348, 3577, 8990, 2415, 2486>>,
    <<43629, 48122, 12277, 10454, 50162, 64637, 3006, 56101, 55209, 64685>>,
    <<45428, 56966, 30608, 17550, 338, 62055, 14851, 5627, 47408, 18761>>,
    <<63535, 9060, 2512, 18640, 10887, 42889, 47908, 63978, 62417, 32953>>,
    <<50466, 24890, 38619, 1769, 43030, 21469, 39114, 45565, 39652, 20800>>,
    <<65178, 15154, 1409, 24045, 16383, 35087, 16, 33520, 9654, 12706>>,
    <<9889, 17950, 35180, 7449, 13768, 43273, 31149, 30194, 2415, 36567>>,
    <<29571, 28348, 38648, 43950, 35424, 32111, 57151, 57783, 37620, 59675>>,
    <<62268, 65025, 57945, 24420, 61587, 24415, 52488, 31367, 4346, 8323>>,
    <<53927, 48983, 19912, 62742, 30382, 16132, 28856, 20646, 39783, 53105>>,
    <<40074, 48644, 45638, 38311, 56840, 56225, 52478, 46333, 27168, 58972>>,
    <<29984, 51996, 41970, 59307, 54117, 43700, 644, 25411, 35212, 50834>>,
    <<61650, 59674, 4955, 511, 59658, 43012, 53183, 26240, 54168, 50835>>,
    <<4802, 33045, 48640, 47614, 3638, 31425, 39629, 55160, 36999, 60230>>,
    <<4438, 27374, 10683, 21023, 26751, 21773, 5519, 492, 46728, 10194>>,
    <<60487, 17060, 5236, 27314, 39573, 20264, 61507, 30484, 1079, 38445>>,
    <<26129, 23960, 50243, 62206, 7725, 51882, 59534, 40726, 11904, 15652>>,
    <<47054, 6497, 48243, 4253, 34355, 51242, 23325, 12663, 55282, 11185>>,
    <<31726, 24562, 1989, 21457, 57885, 25522, 33864, 41618, 38237, 39138>>,
    <<20624, 6282, 51518, 47373, 49733, 48253, 63987, 52113, 27630, 21078>>,
    <<19748, 29636, 11915, 26508, 57604, 61761, 4747, 20332, 47245, 12364>>,
    <<57318, 29570, 2546, 12344, 64304, 10689, 61804, 49431, 51483, 30233>>,
    <<18005, 11410, 59843, 29257, 12564, 42536, 8579, 61774, 18475, 49168>>,
    <<38450, 36177, 21300, 58397, 13725, 4753, 23462, 5236, 26648, 33772>>,
    <<24755, 19573, 56635, 23281, 51231, 40292, 32049, 5355, 47088, 17390>>,
    <<50981, 26746, 32800, 56542, 35788, 17412, 8447, 25307, 21550, 24871>>,
    <<7466, 44791, 53346, 4280, 60265, 7173, 30010, 55573, 37597, 12022>>,
    <<35888, 56558, 15264, 45312, 26556, 64795, 7368, 12, 62792, 47726>>,
    <<63129, 27615, 59494, 4548, 39713, 49899, 39081, 5462, 52472, 51708>>,
    <<14808, 49437, 31450, 30555, 14681, 30126, 4200, 54746, 25580, 3300>>,
    <<2946, 43990, 28067, 56424, 7750, 55074, 36224, 14435, 27084, 39092>>,
    <<7609, 22486, 31070, 30916, 52476, 60811, 46505, 65131, 48002, 44069>>,
    <<746, 11142, 27113, 11648, 31878, 24359, 15275, 25988, 24417, 31218>>,
    <<1658, 39959, 7378, 44944, 59351, 13833, 10214, 40739, 14616, 61333>>,
    <<56439, 46517, 12408, 26638, 31662, 1104, 51781, 6552, 30135, 35870>>,
    <<49001, 158, 57021, 63865, 8133, 11052, 1364, 62255, 26871, 49205>>,
    <<19381, 21776, 5683, 81, 33144, 37798, 33097, 11656, 9210, 15017>>,
    <<29436, 35064, 20751, 40886, 2917, 15557, 51493, 61, 54062, 57495>>,
    <<17456, 35291, 22152, 12685, 11917, 2880, 10711, 35036, 33161, 22223>>,
    <<11778, 5195, 26631, 56935, 40828, 61558, 2649, 21596, 40278, 62675>>,
    <<8404, 55889, 27898, 13197, 54924, 51760, 11566, 64147, 30594, 48851>>,
    <<65516, 46563, 11331, 71, 16141, 40886, 8716, 45240, 33347, 32647>>,
    <<44270, 65130, 43125, 16018, 57112, 9506, 53405, 60699, 30442, 44779>>,
    <<62150, 13350, 14004, 14092, 43551, 65528, 12184, 51343, 58596, 26003>>,
    <<37023, 63350, 34393, 21543, 22349, 65269, 53581, 40932, 1020, 12079>>,
    <<56198, 2861, 53470, 61566, 41914, 33766, 32634, 13051, 33005, 9516>>,
    <<53684, 36863, 34569, 5665, 52037, 63613, 45859, 36714, 44121, 12138>>,
    <<65254, 5436, 315, 36221, 16587, 64168, 8012, 63362, 9209, 13279>>,
    <<4986, 63582, 31794, 18833, 26313, 6105, 40311, 36660, 55236, 26484>>,
    <<61922, 29815, 51926, 55812, 14731, 58425, 48107, 33302, 10562, 1824>>,
    <<41604, 30702, 37134, 6323, 42310, 48590, 17088, 15141, 63469, 22311>>,
    <<2300, 27197, 6942, 40220, 51209, 32705, 16851, 41093, 12647, 24931>>,
    <<50018, 51544, 5942, 46803, 40345, 49129, 11374, 21060, 61465, 33890>>,
    <<41267, 38358, 52591, 25853, 6295, 64496, 60268, 65291, 23330, 22001>>,
    <<58921, 53140, 63096, 4108, 41267, 55098, 12416, 45721, 25892, 16965>>,
    <<41930, 26139, 17506, 14448, 58197, 4723, 36341, 46344, 64511, 21305>>,
    <<48536, 60030, 53706, 33522, 17839, 36565, 7378, 53573, 51056, 15618>>,
    <<45441, 63977, 25184, 18720, 797, 55915, 48022, 32595, 42054, 1320>>,
    <<45377, 37495, 65394, 16191, 51883, 49448, 8123, 54792, 17439, 65472>>,
    <<42920, 54357, 44471, 32913, 1785, 29100, 23748, 34457, 53316, 770>>,
    <<8843, 29410, 33523, 16111, 42980, 35843, 40263, 21619, 46415, 10748>>,
    <<1791, 55690, 45092, 9277, 23343, 53901, 35103, 2232, 41732, 49179>>,
    <<49444, 25795, 40765, 9674, 3317, 46806, 13622, 40488, 12763, 39019>>,
    <<44469, 33658, 52447, 64069, 55850, 35212, 48079, 7317, 25894, 28477>>,
    <<8526, 54047, 19743, 20688, 58415, 45706, 59269, 18046, 7252, 27883>>,
    <<41486, 37177, 13504, 30214, 64254, 48741, 23509, 64259, 25222, 18595>>,
    <<14522, 2640, 34563, 51754, 48093, 14462, 47587, 48727, 588, 26982>>,
    <<45958, 6242, 17389, 63595, 37056, 60707, 36923, 65298, 7026, 22389>>,
    <<10173, 18239, 57397, 23475, 38480, 31405, 26986, 62792, 64155, 18696>>,
    <<28615, 8799, 39935, 17602, 52199, 30503, 26200, 9783, 22025, 62643>>,
    <<38069, 49559, 57092, 16909, 31574, 59898, 27573, 19377, 52168, 59888>>,
    <<46386, 6032, 46478, 43208, 53894, 30960, 4177, 38355, 65428, 55266>>,
    <<23840, 24704, 43118, 18591, 43992, 50280, 45971, 10066, 26685, 58394>>,
    <<57629, 11229, 20460, 1925, 40807, 38297, 617, 23846, 14573, 26519>>,
    <<35197, 33949, 144, 61248, 20606, 60132, 54881, 31793, 43280, 58801>>,
    <<13273, 33517, 49516, 59042, 36353, 23513, 58107, 62672, 29469, 18468>>,
    <<31077, 20360, 57062, 19972, 35080, 53476, 23615, 58702, 39005, 48006>>,
    <<20057, 48451, 20347, 56744, 64509, 12457, 8751, 32470, 39384, 18860>>,
    <<28713, 52777, 12923, 21284, 62581, 22591, 21065, 42665, 24463, 3404>>,
    <<37275, 52292, 23342, 9981, 45777, 8938, 22895, 57701, 65192, 14966>>,
    <<21342, 42473, 58036, 23807, 3781, 9843, 42526, 31063, 15723, 35231>>,
    <<41390, 36257, 63610, 33991, 39830, 59892, 65009, 61367, 42897, 21740>>,
    <<36035, 23537, 55362, 56018, 53449, 63236, 35361, 41770, 45031, 64704>>,
    <<39682, 17464, 610, 63677, 9757, 65299, 12491, 41776, 3692, 58260>>,
    <<25923, 53610, 40802, 9942, 25713, 23869, 27109, 25985, 2998, 37835>>,
    <<33047, 36033, 57190, 16887, 21164, 11362, 55121, 40220, 41548, 3774>>,
    <<63511, 47151, 37024, 58499, 7761, 17881, 55068, 61711, 17899, 5529>>,
    <<37627, 22449, 51344, 26948, 19236, 59492, 53234, 37550, 29684, 16493>>,
    <<45685, 7284, 23289, 37973, 50387, 35909, 21872, 41314, 20806, 12490>>,
    <<56344, 371, 29188, 45577, 29159, 51457, 32887, 49556, 43611, 28855>>,
    <<42639, 12988, 43808, 52466, 22762, 16646, 50010, 27150, 15409, 37436>>,
    <<16331, 53845, 17410, 49425, 16827, 60901, 21822, 44839, 14006, 36109>>,
    <<13354, 46486, 17745, 44116, 56406, 32228, 36855, 46479, 44999, 59268>>,
    <<33825, 9241, 47349, 55322, 61473, 38006, 21996, 34197, 48561, 34466>>,
    <<29179, 52401, 26734, 4144, 6695, 63818, 11408, 39949, 948, 54559>>,
    <<37546, 20292, 25957, 49059, 17000, 36984, 4300, 42357, 62813, 19442>>,
    <<25588, 22335, 18105, 8207, 42508, 62861, 29096, 37270, 60640, 39990>>,
    <<16204, 43014, 21670, 51796, 47500, 13507, 53704, 21566, 15450, 36649>>,
    <<65422, 31631, 31995, 29979, 28980, 21169, 56791, 54096, 44309, 17123>>,
    <<8423, 24210, 38824, 57780, 52518, 42735, 8646, 62255, 165, 54433>>,
    <<28091, 12727, 24862, 29937, 30799, 32238, 929, 8924, 54752, 50383>>,
    <<32932, 8904, 4685, 33496, 43261, 1183, 57315, 11057, 62543, 10194>>,
    <<44067, 3584, 10589, 3214, 40194, 9390, 63992, 12307, 24670, 41851>>,
    <<31067, 48295, 56443, 54213, 7975, 2112, 51102, 32649, 33871, 7995>>,
    <<37374, 65519, 17832, 50117, 17274, 20664, 56572, 35987, 3414, 23659>>,
    <<62007, 60488, 12473, 52868, 33653, 22986, 7968, 56062, 3923, 45734>>,
    <<1878, 6549, 13866, 44518, 36095, 27931, 2001, 18168, 5850, 5282>>,
    <<56387, 8290, 492, 6047, 28354, 47107, 53806, 15507, 52135, 1925>>,
    <<4920, 34119, 3328, 36170, 24358, 59150, 55069, 15770, 34938, 39599>>,
    <<30511, 24770, 22386, 42850, 41250, 11336, 44991, 62567, 47841, 2217>>,
    <<44629, 24431, 30461, 15735, 39292, 8162, 58916, 23216, 52482, 64411>>,
    <<15278, 56379, 54984, 47408, 49849, 62390, 34366, 748, 13175, 53266>>,
    <<48706, 33801, 39296, 50214, 58556, 25025, 12835, 32442, 6470, 16212>>,
    <<48673, 27416, 17677, 43559, 38370, 63156, 12587, 4866, 62862, 30226>>,
    <<34897, 57474, 2309, 47839, 37297, 8873, 23563, 55118, 65468, 50411>>,
    <<24678, 8445, 25818, 2691, 11062, 42873, 49950, 33974, 5614, 60193>>,
    <<44604, 4812, 34118, 57669, 44435, 23266, 53896, 60895, 63537, 44494>>,
    <<33810, 7392, 57041, 64890, 27782, 34202, 33105, 64201, 50492, 58536>>,
    <<16415, 19167, 31463, 28545, 31879, 16009, 6909, 17173, 31948, 54012>>,
    <<19533, 23837, 50559, 33147, 1322, 27839, 683, 38742, 55632, 43850>>,
    <<1203, 27440, 29406, 1832, 6040, 33733, 31491, 54199, 54235, 10093>>,
    <<39083, 38226, 63958, 1433, 46681, 19389, 3814, 38932, 41113, 50123>>,
    <<37024, 64650, 4742, 28102, 22102, 12078, 24563, 57603, 14043, 40372>>,
    <<38256, 31885, 42191, 38932, 4080, 55935, 64728, 2410, 60518, 24846>>,
    <<13573, 31760, 60832, 27505, 63376, 12755, 18195, 42462, 49324, 23827>>,
    <<38307, 38013, 41040, 53497, 40213, 41057, 24305, 28028, 3452, 49140>>,
    <<22287, 14886, 25849, 12533, 40715, 45396, 47729, 65249, 23969, 20973>>,
    <<15937, 4878, 33618, 37158, 35910, 1001, 51492, 59874, 32036, 39047>>,
    <<17197, 19263, 12877, 63148, 31823, 42230, 12721, 40374, 22871, 61192>>,
    <<48880, 65462, 1165, 55325, 55512, 14022, 57618, 62182, 51907, 9601>>,
    <<1770, 51387, 29547, 18013, 27465, 62759, 62825, 61838, 3458, 38968>>,
    <<24169, 30995, 48348, 23130, 42413, 12562, 21619, 40404, 62316, 14373>>,
    <<35877, 7151, 37864, 51802, 56321, 35630, 20705, 55181, 16327, 62647>>,
    <<22048, 60758, 30972, 54090, 3217, 28593, 1247, 44815, 43397, 36775>>,
    <<58636, 16144, 3846, 25592, 30842, 26320, 3236, 8755, 24670, 38438>>,
    <<48027, 52331, 22897, 36704, 20702, 15434, 37833, 17253, 42019, 8922>>,
    <<43755, 20018, 21980, 8298, 16986, 41282, 53145, 48988, 47579, 6611>>,
    <<27569, 31640, 53257, 47059, 43731, 38292, 27111, 11444, 54755, 46765>>,
    <<10877, 31666, 47348, 34111, 38193, 15980, 59547, 25768, 17560, 49824>>,
    <<31614, 14389, 40073, 17774, 32550, 27547, 16773, 62363, 52549, 1447>>,
    <<2256, 20058, 4331, 49944, 61587, 6214, 39978, 31163, 2042, 38677>>,
    <<59975, 47553, 50531, 14518, 19303, 11144, 63608, 40055, 32860, 59399>>,
    <<44481, 29196, 6424, 6172, 65315, 2678, 53447, 63015, 37835, 44969>>,
    <<38812, 49697, 22504, 53932, 52653, 23852, 30778, 1508, 35831, 36917>>,
    <<40818, 37373, 15795, 11834, 4089, 49981, 22080, 44709, 33413, 62074>>,
    <<57237, 22688, 22424, 57635, 2617, 32990, 57187, 54545, 15114, 34416>>,
    <<4045, 12574, 24782, 48580, 51312, 9716, 47480, 23330, 13929, 45002>>,
    <<44610, 48180, 3662, 38057, 31836, 27545, 5917, 48179, 541, 21373>>,
    <<61283, 45206, 62897, 51420, 30765, 40882, 39761, 25961, 58922, 63712>>,
    <<46320, 64197, 43054, 12936, 60997, 34830, 59547, 57853, 44636, 58195>>,
    <<17448, 64669, 46388, 64645, 14676, 63426, 49508, 36282, 8542, 23493>>,
    <<53082, 53937, 23920, 21102, 55453, 62966, 48028, 22358, 52466, 5229>>,
    <<53022, 20257, 60019, 43772, 48054, 51921, 47273, 62142, 27233, 38097>>,
    <<62151, 18336, 7329, 32288, 5927, 39647, 28691, 34773, 40345, 49209>>,
    <<6515, 19057, 52959, 11585, 33588, 10313, 37051, 54036, 22287, 30275>>,
    <<54897, 47673, 50223, 12213, 63003, 64227, 43426, 57351, 25945, 9730>>,
    <<31180, 46026, 30990, 57786, 23622, 65275, 8408, 46607, 14504, 16199>>,
    <<212, 20570, 19651, 5615, 5838, 36883, 1356, 34705, 55430, 52227>>,
    <<52962, 24740, 12696, 29271, 51062, 12445, 35696, 6908, 44766, 57102>>,
    <<64754, 51431, 47884, 8071, 20266, 45881, 54061, 29796, 35266, 22718>>,
    <<35748, 15442, 12308, 11628, 46675, 30378, 11682, 55581, 63628, 27323>>,
    <<62501, 15758, 22081, 29217, 20451, 30488, 46775, 59502, 36473, 24153>>,
    <<33419, 6463, 52761, 48767, 1334, 14738, 16138, 34858, 31975, 1385>>,
    <<58442, 54685, 49470, 10623, 34488, 8283, 8413, 28600, 20326, 10727>>,
    <<38729, 2937, 30963, 64611, 10196, 39837, 52288, 55823, 11945, 899>>,
    <<60619, 12661, 59670, 33390, 63482, 13586, 6190, 6904, 4644, 24314>>,
    <<60429, 42714, 8029, 11210, 48235, 40057, 42658, 28020, 62980, 5157>>,
    <<20651, 43088, 9921, 41951, 64519, 24996, 50880, 50154, 18443, 18493>>,
    <<54045, 56020, 25673, 13584, 58482, 19744, 12218, 7734, 19728, 9082>>,
    <<3948, 36818, 57019, 27510, 40845, 64524, 4517, 62970, 50018, 1812>>,
    <<16384, 34737, 41035, 5935, 16191, 45821, 61013, 3802, 55777, 19313>>,
    <<62143, 7108, 52288, 10193, 54469, 56275, 15716, 4481, 31752, 23172>>,
    <<63460, 65193, 15146, 5269, 52758, 15445, 63582, 53089, 33600, 22408>>,
    <<34351, 954, 10129, 51789, 18455, 55366, 54526, 57270, 49666, 43599>>,
    <<63420, 7427, 29165, 20080, 29792, 31528, 21205, 20436, 62084, 35119>>,
    <<6991, 21076, 12503, 45769, 1905, 1285, 32880, 38200, 76, 2682>>,
    <<6043, 63790, 22506, 53322, 55486, 49347, 59769, 40307, 54338, 7045>>,
    <<15038, 8057, 10126, 40729, 24427, 22580, 48242, 46841, 55179, 32381>>,
    <<60440, 22971, 1458, 46109, 34356, 5343, 27900, 58617, 9132, 28335>>,
    <<8359, 56297, 11259, 31637, 5941, 57820, 36460, 52718, 36382, 36873>>,
    <<58786, 19894, 44795, 3654, 24283, 36537, 28446, 61597, 63196, 27625>>,
    <<15569, 48219, 55803, 15118, 13961, 49801, 8380, 16335, 2235, 44205>>,
    <<36371, 44288, 62909, 44608, 47919, 59344, 9516, 65354, 12836, 9104>>,
    <<840, 39462, 17634, 36140, 49102, 26157, 12546, 43233, 43319, 18233>>,
    <<5670, 24311, 28841, 56873, 14972, 34237, 27532, 51822, 28462, 58212>>,
    <<24468, 12645, 8278, 1312, 54957, 10975, 2266, 55593, 225, 24698>>,
    <<20182, 59771, 37013, 9431, 47682, 29968, 3481, 41851, 22240, 51979>>,
    <<60794, 40044, 49850, 64123, 44614, 47616, 20108, 24433, 49554, 11116>>,
    <<6552, 22057, 3016, 65205, 14259, 41344, 57089, 17065, 27202, 6993>>,
    <<58212, 28105, 4233, 58833, 56124, 24326, 11382, 425, 46076, 26604>>,
    <<49217, 23844, 30314, 11074, 39351, 18264, 8838, 48162, 25645, 42698>>,
    <<30198, 43506, 3496, 27601, 9932, 10494, 41607, 49891, 37077, 15780>>,
    <<54322, 25967, 39904, 62528, 34748, 43401, 335, 29838, 9615, 14091>>,
    <<57101, 64535, 54762, 30283, 47111, 53973, 53781, 23995, 10865, 31836>>,
    <<43406, 47071, 31796, 49381, 17505, 4742, 38419, 3867, 10190, 51148>>,
    <<14087, 61831, 23016, 36136, 57802, 23571, 54492, 5664, 58170, 6032>>,
    <<37857, 21737, 32241, 60909, 61871, 34409, 45430, 31836, 22236, 40490>>,
    <<54534, 64802, 45124, 51538, 50015, 1163, 55736, 15456, 12018, 33357>>,
    <<46303, 3708, 52672, 18795, 56140, 60882, 48466, 30569, 30602, 16500>>,
    <<53442, 13109, 17125, 14012, 4525, 40827, 29261, 22402, 32670, 2050>>,
    <<17290, 53494, 15522, 16293, 60617, 62722, 37991, 32081, 19708, 14643>>,
    <<39699, 9942, 21725, 28275, 53404, 25307, 18446, 23910, 31739, 24385>>,
    <<38713, 52390, 60615, 28179, 4718, 226, 65079, 53409, 60385, 36782>>,
    <<60324, 56464, 19705, 13020, 53840, 46933, 33586, 57563, 6304, 31767>>,
    <<49496, 24480, 35879, 15841, 24036, 23021, 63478, 43046, 47396, 20292>>,
    <<59540, 27301, 16907, 54115, 14964, 30205, 32982, 18739, 55360, 56141>>,
    <<1078, 12252, 9737, 5212, 63977, 18143, 59919, 3829, 9593, 60780>>,
    <<56855, 58337, 599, 40317, 551, 60423, 52362, 5717, 31766, 48223>>,
    <<14795, 51920, 57393, 46627, 19115, 12258, 50605, 6953, 23131, 29938>>,
    <<8642, 52548, 42690, 6710, 29438, 29785, 10468, 5466, 7132, 26771>>,
    <<30781, 44137, 7033, 25348, 48813, 10439, 4414, 46642, 45055, 48712>>,
    <<43080, 24469, 54184, 44602, 48006, 18993, 18940, 36582, 55846, 1917>>,
    <<14326, 39856, 51539, 28902, 38330, 903, 21935, 47769, 25426, 11720>>,
    <<14178, 58123, 48131, 7197, 12218, 43964, 35002, 64729, 5888, 4822>>,
    <<63729, 41279, 17018, 30800, 43278, 23768, 47830, 25365, 50977, 12749>>,
    <<5761, 1156, 50967, 22032, 27825, 58688, 51008, 23074, 61723, 58479>>,
    <<14703, 130, 45682, 40449, 45073, 35022, 21695, 53681, 33572, 21593>>,
    <<53858, 54525, 59404, 64182, 37249, 11788, 49773, 48180, 22788, 5338>>,
    <<18227, 39856, 56086, 64129, 52696, 5117, 59512, 32294, 16299, 9992>>,
    <<51941, 9491, 5704, 1790, 34326, 11682, 25959, 5781, 61084, 53004>>,
    <<29411, 28364, 11923, 15694, 47054, 38372, 19493, 26299, 59247, 53244>>,
    <<10834, 27219, 1230, 54784, 5723, 29883, 54882, 17101, 23117, 14695>>,
    <<58251, 43822, 2407, 13900, 54296, 32398, 56879, 33447, 16272, 21905>>,
    <<46037, 42983, 64813, 32382, 51300, 10932, 20617, 42347, 52265, 50498>>,
    <<47655, 43141, 307, 51302, 28623, 1646, 11593, 20324, 21174, 25033>>,
    <<16568, 50111, 10034, 38100, 56987, 54561, 24771, 34814, 2423, 35308>>,
    <<7305, 47998, 58799, 49410, 39640, 26964, 49526, 59085, 15401, 45944>>,
    <<61516, 48079, 58545, 56710, 8894, 55731, 23539, 46054, 37488, 9361>>,
    <<14656, 22148, 63520, 38505, 5769, 17668, 43224, 45983, 19242, 40590>>,
    <<10941, 62198, 54492, 2438, 50994, 10273, 7211, 48461, 62711, 54898>>,
    <<2229, 51911, 261, 16187, 161, 34182, 8254, 38570, 10336, 47137>>,
    <<46511, 60005, 60868, 57059, 30007, 60305, 30448, 1888, 14835, 43984>>,
    <<49561, 17356, 42263, 48971, 18231, 42750, 35653, 6966, 33710, 1012>>,
    <<36102, 33197, 56489, 45789, 354, 31963, 63921, 52858, 46796, 36655>>,
    <<12185, 44365, 32441, 5067, 59616, 37802, 21168, 28584, 13063, 33281>>,
    <<477, 58536, 44745, 31165, 58756, 33434, 59970, 48800, 8047, 11367>>,
    <<49650, 54977, 19001, 4748, 43082, 39071, 25986, 54434, 42085, 4756>>,
    <<32747, 33037, 4528, 22664, 36774, 28811, 37913, 7347, 3082, 35976>>,
    <<13594, 47329, 24765, 44864, 21823, 20482, 23286, 32459, 45729, 29278>>,
    <<61213, 49949, 2906, 248, 44144, 32194, 39608, 4085, 53215, 33833>>,
    <<6783, 13820, 47412, 57887, 19791, 62104, 48409, 6385, 15735, 30981>>,
    <<61221, 48533, 54817, 43081, 42766, 52216, 15604, 18626, 10255, 52242>>,
    <<59483, 59267, 4305, 17464, 21496, 51703, 55350, 49555, 50496, 45638>>,
    <<47436, 13577, 65436, 13399, 52616, 44771, 1457, 45156, 59849, 39455>>,
    <<58655, 12002, 27593, 57860, 93, 46247, 19822, 4619, 20825, 24044>>,
    <<62908, 4212, 31306, 38024, 15620, 35930, 30208, 35151, 63931, 57536>>,
    <<55909, 61666, 28617, 17273, 57639, 18445, 46799, 41308, 14328, 343>>,
    <<30406, 55465, 25606, 55258, 14588, 43485, 12952, 45344, 36083, 12335>>,
    <<59506, 32478, 59831, 55685, 62563, 43173, 13876, 65254, 7382, 10509>>,
    <<20756, 61643, 38692, 47888, 54607, 57054, 2851, 58068, 64114, 65358>>,
    <<39165, 39616, 9732, 30716, 5996, 24205, 24618, 43227, 8637, 18482>>,
    <<44484, 48246, 36270, 32796, 63489, 4419, 62299, 54396, 30963, 35170>>,
    <<9736, 28546, 51543, 59293, 21747, 31670, 62231, 15385, 12919, 44206>>,
    <<8712, 19172, 58723, 4419, 18521, 51758, 45924, 62638, 27874, 6179>>,
    <<3761, 21213, 22312, 37200, 29784, 27023, 43615, 43483, 27289, 46763>>,
    <<19406, 59054, 20731, 35184, 37696, 438, 16282, 38974, 5855, 41570>>,
    <<33980, 64705, 62512, 18409, 15234, 2208, 5439, 18011, 51969, 43217>>,
    <<48456, 43944, 33479, 59687, 48236, 33747, 56393, 59168, 2926, 2237>>,
    <<52194, 7014, 41919, 5607, 40158, 21550, 47608, 21223, 55698, 5519>>,
    <<54956, 17963, 18465, 57721, 43175, 64533, 1531, 32784, 26255, 61600>>,
    <<22806, 45578, 41964, 38618, 52873, 47956, 18654, 11078, 52625, 6748>>,
    <<60397, 52753, 28920, 23632, 53905, 39831, 34515, 62450, 12250, 29133>>,
    <<30070, 975, 20159, 4565, 56398, 13971, 36063, 59867, 35987, 47334>>,
    <<61770, 30558, 54594, 10540, 42735, 60702, 24484, 11643, 6310, 16860>>,
    <<64906, 43140, 59584, 20725, 56819, 58299, 1919, 64416, 18344, 17013>>,
    <<15311, 27476, 97, 53136, 63624, 48491, 35388, 3182, 1537, 32028>>,
    <<43747, 33924, 59999, 42383, 45295, 29222, 20842, 25295, 45753, 998>>,
    <<39327, 39149, 61367, 35324, 38154, 23336, 49755, 47094, 47759, 64067>>,
    <<20782, 46134, 43401, 7816, 40811, 30967, 15253, 2347, 57260, 33490>>,
    <<8266, 35954, 36154, 35762, 65008, 7648, 57387, 26678, 43921, 33143>>,
    <<52798, 32347, 46293, 13447, 46240, 21997, 7064, 25557, 20670, 56821>>,
    <<60757, 64181, 27463, 17518, 42386, 4539, 14527, 25043, 10681, 55641>>,
    <<32613, 50692, 53097, 50908, 51930, 17977, 2888, 17316, 32533, 5807>>,
    <<33185, 57732, 38107, 24020, 33555, 22260, 43349, 13916, 38651, 46501>>,
    <<9405, 396, 18474, 24006, 52129, 59207, 60570, 16496, 30988, 21915>>,
    <<22465, 54361, 13904, 38231, 2038, 42989, 20695, 29953, 47384, 41452>>,
    <<1047, 52168, 12397, 15481, 44252, 27608, 34842, 39435, 28846, 12951>>,
    <<7638, 20031, 28809, 55895, 4768, 53960, 35325, 829, 52959, 31257>>,
    <<18894, 58713, 64239, 25322, 8565, 44919, 20037, 37084, 60476, 60589>>,
    <<56181, 41, 33809, 52049, 23065, 14920, 35584, 46609, 36561, 26852>>,
    <<29621, 4281, 48422, 7054, 47784, 23253, 16726, 47878, 30234, 45857>>,
    <<64535, 7648, 44172, 19787, 42570, 17651, 28957, 58411, 49658, 50869>>,
    <<35617, 58652, 60622, 19019, 4643, 20623, 9543, 25773, 6650, 49785>>,
    <<33574, 39753, 30724, 39333, 50189, 48278, 2093, 43857, 51251, 60319>>,
    <<53831, 21065, 19096, 45487, 28731, 55421, 18377, 34656, 10522, 58791>>,
    <<25561, 53740, 42213, 63331, 32106, 63428, 58699, 3125, 60895, 27656>>,
    <<2574, 34533, 10709, 8796, 32994, 39, 37668, 43461, 38583, 19563>>,
    <<30948, 7065, 4514, 65197, 16173, 23455, 28573, 18714, 52346, 4765>>,
    <<46514, 54537, 54069, 50401, 21236, 53014, 39258, 65510, 30861, 59107>>,
    <<53566, 6538, 3233, 41811, 17023, 51867, 51882, 3577, 4489, 11091>>,
    <<57854, 25640, 8805, 64862, 26057, 43609, 63462, 58356, 55718, 1764>>,
    <<38346, 48845, 27357, 11209, 54625, 22113, 52651, 63139, 53470, 9921>>,
    <<27694, 29496, 45491, 18456, 21387, 12115, 46806, 52987, 20114, 50405>>,
    <<62121, 14739, 55974, 13568, 50744, 16859, 50615, 52307, 55178, 49482>>,
    <<43841, 59059, 6270, 62179, 47196, 63521, 11291, 25366, 527, 10705>>,
    <<10518, 24343, 2634, 31255, 46218, 44010, 8090, 10075, 2089, 37505>>,
    <<56628, 37408, 50726, 41510, 39502, 65034, 52847, 383, 9147, 5051>>,
    <<38296, 7934, 51397, 29129, 45932, 50704, 21551, 6163, 36290, 6543>>,
    <<11410, 58829, 60425, 60345, 51968, 41955, 10850, 47525, 4794, 19101>>,
    <<608, 30102, 4390, 51129, 11015, 19916, 53133, 39515, 25502, 54778>>,
    <<18834, 14953, 16143, 50656, 32773, 35112, 60305, 37223, 58674, 48588>>,
    <<51502, 38236, 6972, 18248, 33401, 54001, 10490, 23243, 25579, 47901>>,
    <<21765, 43329, 9072, 42364, 22345, 22952, 426, 56102, 39162, 39729>>,
    <<6028, 44705, 30706, 46998, 49748, 55207, 49581, 1777, 12918, 36632>>,
    <<65494, 44172, 4872, 16521, 50575, 6207, 17179, 3294, 1758, 45882>>,
    <<27631, 38597, 54928, 58415, 19893, 26196, 37407, 15837, 49754, 52325>>,
    <<54808, 47567, 46053, 22460, 42158, 5090, 53378, 54070, 61713, 11931>>,
    <<60678, 5537, 6438, 26917, 50089, 14467, 15636, 28512, 22136, 60688>>,
    <<48554, 35512, 38883, 23874, 44508, 14754, 30273, 63432, 22787, 62975>>,
    <<41122, 12363, 30556, 44915, 63111, 39017, 39890, 11176, 13825, 50526>>,
    <<54087, 38566, 34939, 58012, 13553, 48421, 34450, 19195, 22103, 1215>>,
    <<35341, 14131, 9594, 61147, 8098, 40450, 33627, 65425, 22773, 52677>>,
    <<28576, 6584, 41513, 7198, 26158, 10326, 30168, 44339, 44612, 28481>>,
    <<46487, 42806, 14918, 16666, 15818, 54337, 55395, 12010, 46554, 54132>>,
    <<16719, 61221, 60676, 27337, 167, 57256, 51208, 39672, 45250, 34155>>,
    <<5693, 33195, 47295, 2225, 39482, 4332, 38200, 62717, 15457, 24431>>,
    <<36235, 52927, 23256, 2696, 22937, 25135, 49689, 35260, 5133, 59342>>,
    <<3129, 54505, 60629, 8665, 56810, 23521, 15687, 14300, 53917, 40922>>,
    <<5871, 15419, 7450, 12192, 28041, 47284, 15521, 55912, 33228, 45052>>,
    <<15308, 21177, 31830, 61004, 22457, 62286, 8851, 25750, 36586, 34876>>,
    <<49268, 38819, 14584, 250, 31909, 22256, 23052, 28628, 41565, 30582>>,
    <<12169, 58006, 51154, 7051, 43360, 44284, 25115, 45692, 40836, 25453>>,
    <<10497, 8350, 11442, 1677, 18078, 37750, 2226, 27234, 18584, 5805>>,
    <<2947, 54363, 33108, 6191, 62119, 42647, 41074, 21709, 25257, 31296>>,
    <<14333, 46999, 48561, 30023, 15958, 30352, 5878, 56312, 53756, 22497>>,
    <<3838, 29072, 62747, 55206, 36810, 18859, 49933, 15558, 9704, 8023>>,
    <<48443, 17921, 42238, 25639, 10069, 14103, 20011, 48030, 23954, 10657>>,
    <<58042, 59958, 34248, 35419, 41628, 3917, 27206, 22277, 53704, 48301>>,
    <<63926, 5000, 38539, 45130, 17235, 12442, 45490, 10549, 55623, 37228>>,
    <<27145, 744, 23015, 26369, 62601, 50864, 26184, 13821, 42304, 5474>>,
    <<30806, 46699, 50351, 390, 62718, 18874, 37100, 27827, 9470, 34316>>,
    <<8285, 22903, 22700, 12871, 41341, 39569, 43620, 38202, 47395, 61301>>,
    <<60390, 63270, 33939, 39616, 57320, 55869, 23724, 56096, 27641, 8265>>,
    <<60094, 20114, 22895, 39648, 23621, 46910, 35846, 49513, 45202, 51575>>,
    <<52285, 33698, 19352, 23112, 17187, 50648, 5601, 49605, 37245, 31013>>,
    <<31261, 18138, 28232, 56655, 35581, 24854, 5413, 21006, 33349, 49870>>,
    <<52670, 7376, 54316, 52112, 59027, 42155, 50318, 13601, 33385, 43345>>,
    <<56570, 52318, 29885, 26254, 14912, 13088, 11511, 31410, 57530, 46183>>,
    <<34986, 13818, 6195, 27665, 60343, 47860, 23905, 37361, 15746, 6950>>,
    <<10500, 17480, 39277, 51286, 47789, 20506, 22587, 37090, 22511, 37019>>,
    <<29332, 60384, 30814, 32788, 29024, 56944, 55915, 41125, 35694, 14748>>,
    <<18023, 37191, 1084, 12373, 5479, 29205, 56805, 48329, 61214, 60867>>,
    <<33234, 23816, 997, 17659, 39965, 37511, 940, 40350, 37119, 32242>>,
    <<28720, 11437, 58530, 63690, 30926, 55964, 546, 50645, 53542, 57114>>,
    <<5022, 44353, 4992, 37410, 10797, 61445, 56075, 37378, 44496, 16652>>,
    <<60723, 37185, 1668, 34507, 23338, 31317, 57410, 24902, 20867, 59429>>,
    <<13399, 18521, 1789, 48396, 50326, 12767, 53488, 22943, 47399, 61965>>,
    <<34160, 800, 23947, 24809, 44972, 14075, 7676, 51321, 6660, 7634>>,
    <<19301, 5375, 13042, 26433, 7305, 51818, 54979, 7940, 24344, 45851>>,
    <<20500, 35037, 554, 2117, 25451, 32187, 16232, 7952, 11483, 12055>>,
    <<1312, 17725, 39021, 27949, 41575, 16238, 6383, 42784, 23461, 58058>>,
    <<20403, 36716, 3424, 46269, 41831, 22567, 57043, 28255, 41073, 17078>>,
    <<3222, 9562, 31078, 51616, 14147, 24906, 53011, 3755, 12921, 58853>>,
    <<44370, 58422, 17119, 10260, 19993, 1848, 43718, 15252, 18642, 23003>>,
    <<56961, 45970, 30427, 28166, 17825, 47469, 7217, 54455, 39087, 43016>>,
    <<37831, 60816, 22398, 16330, 56959, 1365, 11990, 46662, 44823, 26041>>,
    <<51137, 36530, 55632, 56194, 26675, 5654, 25053, 49448, 37830, 23642>>,
    <<65496, 33285, 55911, 9768, 38341, 9280, 27565, 33758, 65107, 18105>>,
    <<1065, 28244, 56202, 43988, 6834, 43558, 46580, 52184, 50282, 1965>>,
    <<20074, 59614, 12371, 8670, 45334, 60403, 17971, 6674, 56653, 20236>>,
    <<46334, 17009, 37403, 32028, 55762, 54850, 6738, 982, 34217, 41397>>,
    <<8498, 10698, 28737, 9075, 53191, 17610, 44301, 14902, 31794, 22993>>,
    <<62727, 3015, 40560, 38774, 10926, 61356, 56605, 63499, 28177, 36899>>,
    <<6052, 59744, 30690, 10060, 32922, 52234, 65250, 26093, 11613, 45529>>,
    <<15478, 59068, 49628, 52086, 14284, 27820, 35391, 41253, 45496, 57672>>,
    <<25836, 24555, 26754, 32953, 47398, 29695, 38101, 41129, 18794, 28716>>,
    <<15828, 37143, 43080, 17119, 32097, 17929, 2073, 60974, 59981, 43810>>,
    <<24396, 6730, 7765, 25867, 54503, 24648, 45020, 1470, 51210, 63817>>,
    <<53171, 43040, 50783, 27037, 20360, 58381, 1417, 63007, 3228, 54081>>,
    <<7664, 22539, 8829, 6017, 9271, 50970, 62050, 29658, 38779, 9144>>,
    <<1560, 22629, 59157, 46344, 14982, 51965, 17266, 57949, 52379, 57997>>,
    <<11985, 47126, 47719, 41296, 25481, 25128, 34361, 7070, 61506, 5424>>,
    <<11930, 7686, 19269, 44591, 13998, 45175, 60182, 9948, 28293, 51873>>,
    <<24535, 55121, 11805, 43959, 65501, 5947, 4983, 36634, 34635, 4932>>,
    <<7221, 56990, 29749, 27177, 51656, 13426, 14008, 20438, 54047, 61204>>,
    <<45344, 22497, 39084, 3534, 51845, 48972, 4022, 18356, 63139, 25644>>,
    <<20671, 34752, 3461, 50208, 54450, 50917, 20970, 31707, 30944, 32988>>,
    <<20826, 52473, 12002, 52205, 45769, 52094, 54328, 40158, 46707, 46238>>,
    <<56452, 57088, 43995, 2765, 22049, 34315, 18268, 17518, 16758, 31858>>,
    <<33432, 20596, 64780, 53258, 44189, 6553, 15049, 58908, 24407, 3131>>,
    <<48459, 29242, 34993, 1392, 57123, 59909, 21191, 1572, 46588, 16013>>,
    <<64446, 39083, 54004, 53686, 31040, 13227, 65195, 21025, 5917, 14725>>,
    <<57137, 10652, 24149, 62943, 22713, 1789, 1867, 24575, 9959, 19034>>,
    <<29227, 38540, 19594, 42111, 44224, 7085, 56161, 13923, 57205, 45279>>,
    <<63244, 40259, 8936, 49294, 61344, 2420, 35495, 45472, 25283, 16564>>,
    <<49751, 65286, 42215, 32253, 136, 40031, 1227, 55602, 8661, 6247>>,
    <<64504, 60518, 54554, 9536, 11000, 56128, 19718, 11938, 50192, 55764>>,
    <<16602, 39858, 31867, 29445, 39266, 58369, 855, 1767, 53300, 14139>>,
    <<11092, 869, 15781, 27312, 12307, 19290, 1225, 50786, 50673, 57480>>,
    <<33854, 31653, 6845, 40950, 9568, 39613, 50554, 33814, 27338, 17658>>,
    <<18573, 21760, 45954, 54212, 58112, 9736, 60275, 57496, 45627, 25416>>,
    <<9225, 52846, 29229, 27593, 63144, 17761, 29351, 28794, 39818, 13622>>,
    <<15332, 36909, 46690, 19360, 63811, 5079, 15666, 8527, 35676, 41938>>,
    <<29958, 23273, 22663, 63669, 42825, 13318, 46245, 57179, 16800, 60137>>,
    <<17148, 34644, 47737, 41819, 35737, 22609, 51623, 19364, 64218, 2747>>,
    <<5575, 36059, 1058, 57673, 57684, 24234, 39630, 55746, 45792, 9556>>,
    <<35231, 59932, 52465, 39933, 14396, 16530, 62744, 38314, 63084, 738>>,
    <<30559, 59491, 60467, 34983, 763, 50624, 62517, 60748, 24712, 35606>>,
    <<37378, 40433, 55660, 54421, 21871, 23564, 37360, 26966, 1910, 59846>>,
    <<29264, 57541, 26349, 24086, 51358, 78, 5686, 48759, 20728, 53192>>,
    <<53120, 38866, 56826, 12687, 38380, 52943, 53585, 52106, 41084, 49065>>,
    <<16002, 39663, 18873, 26247, 4170, 48171, 12502, 50999, 29688, 20151>>,
    <<34754, 9531, 14069, 11407, 3252, 3134, 25774, 59449, 41218, 64049>>,
    <<23749, 8494, 45207, 13968, 20079, 35528, 54185, 1489, 15653, 49245>>,
    <<42236, 18382, 9687, 33976, 52838, 6724, 38120, 5437, 30816, 38599>>,
    <<14347, 51079, 28761, 44135, 47032, 32292, 23825, 62350, 2001, 25163>>,
    <<56850, 28384, 33621, 37098, 42214, 51757, 18471, 42611, 4965, 57163>>,
    <<47296, 655, 45405, 27105, 45685, 12117, 22851, 14084, 62491, 10727>>,
    <<45475, 38807, 45923, 34779, 44075, 53587, 30200, 17750, 42532, 14217>>,
    <<11055, 52058, 57149, 61750, 45249, 21009, 5797, 20098, 32885, 31726>>,
    <<18629, 62763, 64403, 52825, 3704, 12954, 61231, 3025, 58122, 50208>>,
    <<40289, 58985, 28056, 23338, 51157, 63323, 19004, 50230, 64291, 6344>>,
    <<35829, 20101, 60056, 20117, 18132, 30155, 43807, 53106, 32892, 4822>>,
    <<26057, 64435, 64257, 34368, 57353, 42029, 47281, 45861, 25534, 24290>>,
    <<63941, 49352, 18152, 19044, 46500, 32180, 6405, 18588, 45831, 41046>>,
    <<41325, 59527, 53113, 273, 37155, 50861, 49814, 57755, 36708, 1774>>,
    <<21844, 12467, 21467, 678, 28408, 31713, 46169, 15807, 57383, 54037>>,
    <<8700, 34360, 45667, 15214, 39148, 58250, 32730, 23639, 4728, 52742>>,
    <<38772, 55809, 40792, 8300, 40757, 32322, 51653, 65474, 50777, 63977>>,
    <<61320, 50992, 18879, 64682, 28467, 22567, 24551, 58741, 56019, 27096>>,
    <<46352, 34090, 1802, 39489, 42637, 52648, 19199, 55331, 12255, 11706>>,
    <<55475, 29782, 20206, 23786, 61216, 58458, 8281, 30268, 55441, 50661>>,
    <<57093, 50382, 41094, 32596, 29156, 8939, 33058, 27183, 8989, 8079>>,
    <<6664, 11945, 9159, 42072, 41345, 47355, 215, 65472, 47661, 51268>>,
    <<237, 4289, 29862, 37955, 2737, 47103, 22767, 27328, 22670, 9229>>,
    <<45113, 33237, 49252, 10033, 56166, 1775, 53428, 9715, 2233, 18346>>,
    <<42707, 23149, 56625, 58294, 34861, 39807, 48068, 5594, 18548, 9756>>,
    <<14253, 24543, 13172, 38690, 59002, 43271, 47905, 26897, 62902, 57367>>,
    <<41397, 19953, 37681, 51828, 29588, 54543, 48675, 49749, 11236, 23052>>,
    <<30074, 18345, 12914, 36593, 6172, 4780, 45267, 36109, 65167, 48279>>,
    <<58317, 58808, 40136, 7635, 58116, 41745, 64502, 56195, 48699, 60931>>,
    <<54530, 43768, 15564, 56933, 56534, 4960, 39447, 45677, 13057, 59172>>,
    <<40180, 27627, 65278, 1796, 58866, 20114, 43247, 62544, 58265, 28044>>,
    <<49618, 17850, 22239, 19002, 50842, 52958, 13333, 62708, 39394, 2502>>,
    <<8792, 11395, 63830, 57603, 57951, 64430, 33813, 42650, 38594, 47802>>,
    <<31461, 32652, 5998, 55795, 8869, 23287, 62152, 17955, 1121, 62094>>,
    <<47677, 52328, 52167, 28060, 2420, 35803, 41113, 51693, 47846, 3304>>,
    <<64179, 58183, 25261, 40759, 33991, 50336, 26808, 261, 15432, 5144>>,
    <<63706, 42008, 52670, 22139, 48046, 4942, 65217, 13709, 14950, 17908>>,
    <<21297, 11638, 5277, 15344, 28178, 45083, 41013, 42532, 45302, 6724>>,
    <<36861, 26837, 23118, 7861, 20549, 34353, 46154, 19079, 14483, 60118>>,
    <<22973, 63648, 49054, 22, 26600, 12398, 53024, 42756, 33736, 946>>,
    <<31762, 43989, 36043, 22972, 21156, 22456, 57378, 54275, 20953, 45682>>,
    <<55832, 17667, 45155, 11698, 30299, 7533, 28877, 25373, 15544, 19885>>,
    <<41216, 16323, 32955, 29452, 54865, 5967, 44152, 59695, 44919, 47813>>,
    <<26350, 21389, 65405, 16486, 51658, 59103, 17379, 24329, 23693, 41287>>,
    <<19264, 61633, 57377, 32649, 41918, 1807, 12436, 43062, 61985, 25224>>,
    <<22392, 34655, 21777, 64805, 2289, 42299, 40781, 24307, 46886, 17032>>,
    <<33095, 3327, 35293, 24359, 41782, 9892, 47967, 19152, 4402, 48122>>,
    <<52392, 25956, 59161, 11012, 44885, 8608, 14563, 63838, 8595, 55288>>,
    <<46748, 40532, 14833, 46775, 49162, 56593, 42732, 43923, 13033, 48682>>,
    <<5679, 7075, 49381, 63500, 7890, 22695, 18093, 61832, 10603, 55362>>,
    <<48096, 46301, 21986, 18508, 49751, 36342, 27585, 2550, 37073, 38858>>,
    <<15998, 22161, 62227, 1461, 13196, 64579, 48439, 16417, 57302, 52101>>,
    <<12299, 60031, 44699, 45473, 52899, 46437, 54605, 36503, 44344, 12007>>,
    <<3249, 55969, 52766, 24054, 52034, 19931, 58332, 24130, 63217, 37488>>,
    <<41629, 15604, 31082, 38494, 26546, 42318, 7222, 7700, 33683, 40775>>,
    <<46663, 43082, 65201, 53493, 16823, 46223, 45453, 60713, 52659, 50211>>,
    <<62324, 53075, 50058, 41361, 9301, 45216, 22993, 41363, 11288, 18337>>,
    <<65509, 1532, 53724, 10458, 64489, 50435, 47369, 61286, 18125, 42633>>,
    <<17663, 9052, 35273, 64706, 20344, 37709, 53075, 46238, 51002, 10319>>,
    <<36238, 33364, 14358, 31129, 53166, 24927, 64893, 58929, 28870, 14435>>,
    <<32591, 23801, 36688, 50098, 24021, 25827, 22346, 44385, 52313, 5683>>,
    <<10189, 64999, 62730, 33242, 34044, 41966, 44171, 5409, 1717, 39054>>,
    <<3073, 42820, 47320, 23356, 51251, 22199, 14553, 8251, 47626, 35123>>,
    <<28798, 617, 52833, 8008, 21055, 63550, 38903, 56769, 33698, 21708>>,
    <<31021, 12660, 50735, 35708, 4472, 65254, 51602, 52365, 20295, 62205>>,
    <<37935, 1600, 7338, 591, 26199, 44072, 49276, 51693, 12101, 62303>>,
    <<16182, 39420, 56600, 14167, 63773, 39876, 20457, 16963, 32421, 3425>>,
    <<23271, 25782, 62091, 53583, 14733, 45179, 27572, 20332, 49136, 52954>>,
    <<59762, 43389, 12530, 46670, 37218, 10132, 6312, 33661, 21629, 27473>>,
    <<52521, 3539, 38109, 5716, 40193, 58759, 33598, 9714, 4301, 34183>>,
    <<28352, 41730, 8449, 62653, 32690, 44057, 13534, 42357, 27536, 38211>>,
    <<25024, 25632, 17307, 47113, 49709, 13614, 10552, 55662, 64555, 43805>>,
    <<11035, 44044, 2944, 12188, 24421, 14464, 21341, 35433, 54418, 45504>>,
    <<54279, 43007, 51090, 22031, 29078, 1843, 50902, 43844, 2423, 4536>>,
    <<8652, 57892, 37345, 65015, 20409, 680, 16958, 22966, 43478, 56675>>,
    <<47610, 15085, 23431, 25672, 49796, 5460, 4670, 47006, 50157, 20399>>,
    <<28379, 33771, 58276, 43011, 15193, 16216, 46572, 54478, 7728, 58831>>,
    <<13201, 61239, 46352, 1732, 47518, 52358, 21256, 64628, 54107, 11549>>,
    <<28110, 37656, 51615, 38531, 37804, 1299, 24823, 35583, 41207, 45926>>,
    <<13983, 59056, 46094, 39482, 38707, 52546, 8793, 44559, 36214, 48390>>,
    <<3695, 49244, 27147, 26697, 6307, 36815, 41628, 10499, 57568, 63046>>,
    <<25074, 20124, 51025, 10444, 60329, 372, 63479, 62181, 21240, 24209>>,
    <<48912, 27043, 25591, 50761, 51680, 45603, 47960, 10372, 14139, 1537>>,
    <<44704, 49144, 65194, 62867, 53862, 25689, 44897, 62697, 7965, 19945>>,
    <<30794, 34075, 63507, 31382, 6136, 8702, 26010, 2960, 48816, 35301>>,
    <<27150, 62123, 46898, 36036, 20205, 9420, 15859, 37563, 42873, 38196>>,
    <<8261, 8978, 25594, 63710, 3014, 31059, 21275, 12185, 20774, 10563>>,
    <<7896, 30343, 27504, 46184, 29678, 26393, 7023, 19292, 51410, 25230>>,
    <<969, 41405, 4243, 24450, 59295, 25159, 21586, 5929, 38099, 36550>>,
    <<32805, 33614, 36002, 34169, 8277, 38253, 63646, 4920, 20953, 33512>>,
    <<2037, 2090, 36187, 32735, 2988, 28625, 25350, 35665, 30490, 4289>>,
    <<44390, 39637, 32310, 54176, 9051, 34722, 51937, 12397, 53644, 19603>>,
    <<2215, 65117, 47407, 61190, 56275, 45346, 18610, 15629, 33826, 35049>>,
    <<7162, 19157, 17831, 43625, 19956, 30076, 46537, 46147, 63068, 29394>>,
    <<28732, 23939, 29502, 38469, 60101, 9912, 32305, 6085, 51371, 58497>>,
    <<30852, 55372, 22135, 2657, 24652, 4731, 16152, 30349, 61833, 45408>>,
    <<2091, 64902, 9310, 61119, 47230, 64912, 5363, 34552, 1646, 20392>>,
    <<23270, 55041, 37947, 55008, 26426, 34887, 37042, 8188, 1945, 6086>>,
    <<23240, 14825, 10848, 33097, 18272, 28969, 53243, 55059, 48949, 42122>>,
    <<49048, 44069, 61853, 5661, 43343, 4052, 51363, 44290, 16420, 1153>>,
    <<35966, 19911, 37964, 43454, 44117, 522, 1802, 33568, 31537, 32489>>,
    <<3499, 62290, 64421, 16548, 46066, 28523, 3380, 12885, 18797, 45365>>,
    <<50274, 15939, 7624, 52484, 33626, 11081, 33356, 1350, 57354, 20733>>,
    <<15497, 61123, 47592, 28543, 15552, 14231, 54887, 65411, 31031, 5505>>,
    <<18496, 31163, 65062, 1538, 47052, 11270, 51857, 22502, 31034, 65348>>,
    <<54916, 62275, 24062, 46716, 29419, 21377, 21214, 53638, 8970, 12886>>,
    <<4076, 21736, 58399, 2009, 19829, 54990, 7721, 2170, 6629, 38980>>,
    <<65204, 2461, 55563, 63075, 50568, 35211, 46197, 56321, 48971, 62158>>,
    <<26505, 3277, 52858, 15243, 10661, 53665, 38092, 34306, 30304, 25523>>,
    <<38054, 53334, 56073, 39923, 7235, 2453, 51628, 36483, 54263, 25155>>,
    <<27897, 37405, 13027, 20198, 48018, 34040, 34663, 22689, 17387, 61039>>,
    <<2294, 58750, 31378, 48583, 4291, 18449, 58565, 23729, 1328, 11641>>,
    <<32084, 15585, 22915, 17217, 2745, 21078, 6381, 46160, 36749, 56654>>,
    <<43402, 59844, 35783, 6150, 61364, 55467, 41797, 64555, 2078, 19652>>,
    <<15556, 54143, 29241, 1717, 27461, 5995, 1303, 49532, 45027, 11244>>,
    <<41974, 46076, 4878, 51081, 43192, 3693, 6954, 31784, 14176, 41420>>,
    <<11184, 1582, 4465, 58717, 37772, 65321, 34288, 10075, 30221, 55409>>,
    <<6158, 7161, 47155, 47292, 5861, 28382, 63261, 49665, 37677, 9458>>,
    <<27614, 32145, 14150, 31930, 44564, 64945, 27357, 64057, 9581, 11532>>,
    <<10991, 34697, 19339, 33487, 53753, 54838, 33096, 25854, 1662, 59746>>,
    <<43135, 13827, 41409, 26844, 9898, 16615, 31808, 34890, 45024, 54895>>,
    <<47158, 14331, 7149, 1617, 33643, 60627, 40449, 61907, 45875, 52853>>,
    <<57317, 49815, 39309, 53972, 51537, 41109, 61163, 35971, 45416, 46426>>,
    <<34830, 17024, 33090, 55901, 64034, 46777, 25736, 53266, 47683, 2379>>,
    <<33981, 64126, 14728, 15015, 11357, 64612, 6892, 19271, 32314, 26833>>,
    <<489, 1960, 38898, 59348, 12368, 58295, 33683, 36080, 20895, 51134>>,
    <<28834, 46503, 33384, 34109, 55361, 15937, 7480, 6805, 31427, 28286>>,
    <<11956, 9059, 30123, 55003, 3003, 45160, 286, 14912, 4236, 50037>>,
    <<63605, 13790, 28294, 31015, 55172, 7199, 13564, 37274, 18465, 46952>>,
    <<53414, 18328, 65406, 64725, 13213, 39121, 31843, 27818, 28216, 20921>>,
    <<2238, 999, 17116, 27662, 3383, 30300, 59391, 49979, 34573, 21623>>,
    <<20462, 30499, 21792, 58282, 4308, 14770, 64519, 3523, 22421, 7150>>,
    <<58516, 7234, 50842, 32273, 57368, 30980, 29509, 30892, 10387, 61757>>,
    <<53462, 9507, 314, 53972, 31902, 17690, 52163, 58088, 30356, 51797>>,
    <<7872, 29091, 17180, 56890, 12019, 54032, 37220, 9632, 32056, 49873>>,
    <<42446, 24736, 48923, 16562, 41485, 52877, 15350, 1442, 16127, 54428>>,
    <<45750, 2290, 60871, 41478, 35751, 40898, 11067, 19076, 59475, 5748>>,
    <<27597, 44603, 24965, 58246, 29230, 20774, 25917, 27127, 2276, 60727>>,
    <<63167, 34000, 6094, 42903, 22299, 8389, 50490, 14289, 7608, 53238>>,
    <<18408, 34460, 37517, 27586, 28969, 1774, 9622, 1972, 23239, 54610>>,
    <<22726, 49237, 12073, 4707, 37851, 59361, 30127, 9292, 43409, 37197>>,
    <<64584, 58262, 15816, 31813, 10754, 52484, 36709, 27025, 13605, 56336>>,
    <<26520, 61195, 16500, 33318, 59268, 17300, 22092, 58335, 59790, 50115>>,
    <<8583, 52488, 60429, 22157, 38303, 58123, 53646, 61125, 58213, 37333>>,
    <<33110, 21876, 10596, 18236, 39896, 4806, 4784, 57407, 17639, 28710>>,
    <<22895, 55478, 39244, 56579, 23948, 40828, 53224, 59365, 13221, 63013>>,
    <<59785, 21060, 28319, 51952, 6230, 52, 40833, 32146, 4945, 30679>>,
    <<716, 63085, 52215, 48582, 30815, 16759, 30710, 48686, 46922, 29016>>,
    <<9270, 19612, 36955, 16962, 62552, 33218, 9669, 59832, 17611, 43316>>,
    <<44442, 53546, 250, 62789, 48402, 19869, 36795, 1955, 37630, 45824>>,
    <<17679, 28660, 4230, 56038, 58418, 61870, 60927, 27095, 61228, 55968>>,
    <<54244, 40125, 20536, 31039, 38842, 33050, 24481, 59142, 40855, 64970>>,
    <<12514, 36331, 61077, 11705, 9689, 38115, 20643, 14468, 48067, 5943>>,
    <<40743, 53517, 15576, 19470, 32813, 11694, 27476, 10007, 58615, 57965>>,
    <<32274, 60832, 65452, 45659, 12994, 15948, 363, 8886, 32358, 59911>>,
    <<50815, 23024, 18837, 65461, 45066, 17819, 14134, 33216, 42497, 40238>>,
    <<57927, 60454, 34136, 51217, 63009, 51733, 59664, 50412, 2672, 56047>>,
    <<32557, 12459, 41010, 21986, 55945, 34236, 20786, 9487, 43136, 8158>>,
    <<793, 47304, 54488, 22587, 36456, 9684, 22795, 34573, 22546, 52962>>,
    <<44289, 39225, 47167, 17797, 51690, 28203, 36415, 46333, 56088, 28481>>,
    <<29784, 20344, 60324, 58091, 54005, 6713, 58243, 36349, 51440, 59739>>,
    <<47619, 45401, 18929, 41866, 9485, 33480, 54157, 40613, 59822, 59523>>,
    <<62445, 32006, 32477, 50106, 110, 51339, 15261, 30032, 52268, 3355>>,
    <<4734, 26226, 39271, 46765, 34849, 60604, 55830, 14974, 49692, 20296>>,
    <<22536, 17613, 24758, 40181, 42423, 21970, 62184, 43703, 20391, 27627>>,
    <<1093, 31635, 45018, 14293, 55933, 21596, 18671, 2114, 65317, 22423>>,
    <<719, 2555, 4467, 7595, 63114, 34489, 7061, 21248, 10487, 24800>>,
    <<35858, 46756, 26062, 30620, 58979, 11371, 49803, 27232, 20364, 56042>>,
    <<11364, 41033, 4767, 56519, 40586, 751, 49718, 4215, 54554, 32659>>,
    <<35786, 40392, 10628, 21907, 24656, 6370, 51570, 8564, 59201, 8498>>,
    <<61018, 4061, 59239, 18023, 36847, 31750, 5928, 30189, 9792, 10659>>,
    <<1139, 60055, 12735, 62360, 64750, 51277, 9591, 58860, 11111, 1821>>,
    <<63231, 30863, 56087, 59679, 9946, 7330, 15303, 27741, 61766, 41688>>,
    <<8250, 739, 21497, 38882, 35065, 58563, 33049, 34503, 7315, 6648>>,
    <<39697, 15865, 43763, 22305, 15119, 21625, 14443, 24256, 39425, 58163>>,
    <<28264, 59944, 55555, 61479, 25930, 9404, 26748, 3052, 46336, 8322>>,
    <<46321, 18997, 15265, 9385, 57982, 1895, 57649, 45806, 2627, 61768>>,
    <<10147, 33886, 23322, 37273, 31698, 9224, 48084, 48180, 5314, 34556>>,
    <<44944, 26758, 10813, 53027, 6097, 58507, 37736, 40825, 24752, 44069>>,
    <<33572, 55102, 29214, 16938, 56410, 64659, 48447, 18346, 57872, 14189>>,
    <<63314, 40956, 40253, 145, 3189, 16502, 32064, 9708, 31962, 64118>>,
    <<3233, 62027, 30246, 56471, 46524, 46962, 40162, 21674, 10191, 37891>>,
    <<40480, 51882, 47967, 16729, 65096, 41530, 39058, 31945, 19943, 40661>>,
    <<53333, 8459, 15448, 31179, 37007, 25290, 2331, 14214, 61210, 54999>>,
    <<46361, 57320, 23284, 60421, 26746, 41361, 41431, 3737, 13847, 49898>>,
    <<26893, 49595, 26900, 42620, 6157, 0, 33337, 21647, 28191, 56450>>,
    <<16445, 39191, 50153, 20601, 34305, 44511, 31656, 11475, 51263, 13387>>
  >>

\* hashlib.sha1(s).digest() as ten big-endian 16-bit words.
sha1(s) == SHA1_DIGESTS[KeyNum(s) + 1]

\* DigestMod as if the digest were read with its last word first.
RECURSIVE DigestModLittle(_, _, _, _)
DigestModLittle(d, i, acc, n) ==
    IF i > Len(d) THEN acc
    ELSE DigestModLittle(d, i + 1, (acc * 65536 + d[Len(d) + 1 - i]) % n, n)

\* int(sha1(s).hexdigest(), 16) % n: the digest read as a non-negative
\* big-endian integer, reduced modulo n word by word.
RECURSIVE DigestMod(_, _, _, _)
DigestMod(d, i, acc, n) ==
    IF i > Len(d) THEN acc
    ELSE DigestMod(d, i + 1, (acc * 65536 + d[i]) % n, n)

\* c in key
Contains(key, c) == \E i \in 1..Len(key) : key[i] = c

\* key.index(c), 1-based: the first position of c in key.
IndexOf(key, c) ==
    CHOOSE i \in 1..Len(key) : key[i] = c /\ \A j \in 1..(i - 1) : key[j] # c

\* key[lo:hi] of Python, for 0-based lo, hi >= 0: empty when hi <= lo.
Slice(key, lo, hi) ==
    LET h == IF hi > Len(key) THEN Len(key) ELSE hi
    IN  IF lo >= h THEN <<>> ELSE SubSeq(key, lo + 1, h)

\* get_node_for_key, lines 142-143: the string that is hashed.
HashInput(key) ==
    IF Contains(key, "{") /\ Contains(key, "}")
    THEN Slice(key, (IndexOf(key, "{") - 1) + 1, IndexOf(key, "}") - 1)
    ELSE key

\* get_node_for_key, line 144: the index into self.nodes, 0-based.
HashIndex(key, n) == DigestMod(sha1(HashInput(key)), 1, 0, n)

\* HashIndex for every key and every shard count of the model, computed once.
RouteTable == [n \in 1..(NumShards + 1) |-> [k \in Keys |-> HashIndex(k, n)]]

-----------------------------------------------------------------------------
(* Values.                                                                 *)

SentinelIds == 1..NumSentinels

\* A master's name: "node1", "node2", ... as its number.
ShardNames == 1..NumShards

\* A port is a token <<"str", n>> (the decimal string of n, as the Sentinel
\* protocol carries it) or <<"int", n>> (the integer n).
\* int(port), Node.__init__ line 38.
IntOf(port) == port[2]

\* The addresses a master can be at: master n starts at 1.2.3.4:n
\* (test_client.py lines 22-23); a fail-over moves it to another of these
\* ports or to the spare host (test_client.py lines 132-133, 145-146).
Addrs ==
    {[host |-> "1.2.3.4", port |-> <<"str", n>>] : n \in ShardNames}
    \cup {[host |-> "2.2.3.4", port |-> <<"str", 1>>]}

\* The Sentinel tier has no record of the master.
NoAddr == [host |-> "", port |-> <<"str", 0>>]

\* The (host, port) a Redis server listens on.
Endpoints == {<<a.host, IntOf(a.port)>> : a \in Addrs}

\* Node.__init__, lines 32-38.  id is the object's identity: Node defines no
\* __eq__, so == and list.index compare identities.
Node(id, name, host, port) ==
    [id |-> id, name |-> name, host |-> host, port |-> port]

NoNode == Node(0, 0, "", <<"str", 0>>)

\* The server node.connection talks to: redis_client_class(host, int(port)).
Endpoint(node) == <<node.host, IntOf(node.port)>>

\* The commands of the model: one the server executes and one it answers with
\* an error reply (redis.exceptions.ResponseError, not a ConnectionError).
Ops == {"set", "badcmd"}

\* The keys whose stored values the model follows: "1" hashes to node2, "2" to
\* node1 (test_client.py lines 177-180).
DataKeys == {<<"1">>, <<"2">>}

\* Some key of Keys the model does not name: the key of a Dispatch.
AnyKey == <<"?">>

\* None given as the key.
NoneKey == <<"None">>

\* The values set stores; NoVal: the server has no value for the key, and the
\* value argument of a command that takes none.
Vals == {"foo"}

NoVal == ""

\* MockStrictRedis.__init__, test_client.py line 21: self.data = {}
NoData == [k \in DataKeys |-> NoVal]

\* SENTINEL MASTERS as MockStrictRedis.execute_command answers it
\* (test_client.py lines 22-23, 39-40): one flat list per known master.
RECURSIVE MastersReplyFrom(_)
MastersReplyFrom(n) ==
    IF n > NumShards THEN <<>>
    ELSE IF masters[n] = NoAddr THEN MastersReplyFrom(n + 1)
    ELSE <<(<<"name", n, "ip", masters[n].host, "port", masters[n].port>>)>>
         \o MastersReplyFrom(n + 1)

\* dict(zip(master[::2], master[1::2]))[field], line 120.
Info(master, field) ==
    master[2 * (CHOOSE i \in 1..(Len(master) \div 2) : master[2 * i - 1] = field)]

-----------------------------------------------------------------------------
(* The frame of a public call: its position and its local variables.       *)

NoCall ==
    [pc |-> "done", kind |-> "none", op |-> "", node |-> NoNode,
     first |-> NoNode, address |-> 0, cmd |-> 0, masterList |-> <<>>,
     reply |-> NoAddr, newNode |-> NoNode, idx |-> 0, res |-> "", ret |-> NoNode,
     tries |-> 0, gms |-> 0, asked |-> <<>>, servedBy |-> <<"", 0>>,
     key |-> AnyKey, val |-> NoVal, value |-> NoVal, outs |-> <<>>,
     conns |-> <<>>, failed |-> <<>>]

\* DisredisClient(sentinel_addresses): __init__ calls _get_nodes, line 74.
CallInit == [NoCall EXCEPT !.pc = "gn_masters", !.kind = "init"]

\* client.get_master(node)
CallGetMaster(node) ==
    [NoCall EXCEPT !.pc = "gm_call", !.kind = "get_master", !.node = node,
                   !.first = node]

\* The threads that call the client at the same time.
Threads == {1, 2}

\* No thread has called the client yet.
NoOrigin ==
    [set |-> FALSE, steady |-> TRUE, nodes |-> <<>>, sentinel |-> 0,
     sentinel_addresses |-> <<>>]

\* A configuration: the client's shared state, the servers' data and the
\* running frame l.
Config(l) ==
    [nodes |-> nodes, sentinel |-> sentinel,
     sentinel_addresses |-> sentinel_addresses, data |-> data, l |-> l]

\* An exception leaves the call (nothing above the frame catches it).
Raise(c, e) == {[c EXCEPT !.l.pc = "done", !.l.res = e]}

\* The smallest identity no live object has.
FreshId(c, live) ==
    LET used == {c.nodes[i].id : i \in 1..Len(c.nodes)} \cup {c.l.node.id} \cup live
    IN  CHOOSE i \in 1..(Cardinality(used) + 1) :
            i \notin used /\ \A j \in 1..(i - 1) : j \in used

-----------------------------------------------------------------------------
(* _connect, lines 76-93.                                                  *)

\* connect_pop as if line 82 were self.sentinel_addresses.pop().
connect_pop_back(c) ==
    IF c.sentinel_addresses = <<>>
    THEN {[c EXCEPT !.l.pc = "sc_except"]}
    ELSE LET n == Len(c.sentinel_addresses)
         IN  {[c EXCEPT !.l.address = c.sentinel_addresses[n],
                        !.l.conns = Append(@, c.sentinel_addresses[n]),
                        !.sentinel_addresses = SubSeq(c.sentinel_addresses, 1, n - 1),
                        !.l.pc = "cn_new"]}

\* line 82: address = self.sentinel_addresses.pop(0).  On an empty list the
\* IndexError becomes ConnectionError("Out of available Sentinel addresses!")
\* (lines 92-93), which _execute_sentinel_command catches at line 106.
connect_pop(c) ==
    IF c.sentinel_addresses = <<>>
    THEN {[c EXCEPT !.l.pc = "sc_except"]}
    ELSE {[c EXCEPT !.l.address = Head(c.sentinel_addresses),
                    !.l.conns = Append(@, Head(c.sentinel_addresses)),
                    !.sentinel_addresses = Tail(c.sentinel_addresses),
                    !.l.pc = "cn_new"]}

\* lines 85-86: self.sentinel = redis_client_class(host, int(port)).  redis-py
\* connects lazily, so the constructor succeeds whatever the member's state; a
\* client class that connects at once raises ConnectionError for a member that
\* is down (lines 89-91: re-raised when the rotation is empty, else the loop
\* goes on with the next address).
connect_new(c) ==
    {[c EXCEPT !.sentinel = c.l.address, !.l.pc = "cn_append"]}
    \cup
    (IF sentinelUp[c.l.address] THEN {}
     ELSE LET d == [c EXCEPT !.l.failed = Append(@, c.l.address)]
          IN  IF c.sentinel_addresses = <<>>
              THEN {[d EXCEPT !.l.pc = "sc_except"]}
              ELSE {[d EXCEPT !.l.pc = "cn_pop"]})

\* connect_append as if line 87 were self.sentinel_addresses.insert(0, address).
connect_insert_front(c) ==
    {[c EXCEPT !.sentinel_addresses = <<c.l.address>> \o c.sentinel_addresses,
               !.l.pc = "sc_exec"]}

\* lines 87-88: self.sentinel_addresses.append(address); break
connect_append(c) ==
    {[c EXCEPT !.sentinel_addresses = Append(c.sentinel_addresses, c.l.address),
               !.l.pc = "sc_exec"]}

-----------------------------------------------------------------------------
(* _execute_sentinel_command, lines 95-111.                                *)

\* lines 102-103: if self.sentinel is None: self._connect()
sentinel_check(c) ==
    {[c EXCEPT !.l.pc = IF c.sentinel = 0 THEN "cn_pop" ELSE "sc_exec"]}

\* sentinel_exec as if the wrapper went on to its second attempt when the
\* Sentinel does not know the master.
sentinel_exec_unknown_retry(c) ==
    IF c.sentinel = 0
    THEN Raise(c, "AttributeError")
    ELSE LET d == [c EXCEPT !.l.asked = Append(c.l.asked, c.sentinel)]
         IN  IF ~sentinelUp[c.sentinel]
             THEN {[d EXCEPT !.l.failed = Append(@, c.sentinel),
                             !.l.pc = "sc_except"]}
             ELSE IF c.l.cmd = 0
             THEN {[d EXCEPT !.l.masterList = MastersReplyFrom(1),
                             !.l.pc = "gn_build"]}
             ELSE IF masters[c.l.cmd] = NoAddr
             THEN IF c.l.kind = "dispatch" THEN {[d EXCEPT !.l.pc = "w_try2"]}
                  ELSE Raise(d, "KeyError")
             ELSE {[d EXCEPT !.l.reply =
                                 [host |-> masters[c.l.cmd].host,
                                  port |-> <<portRep, IntOf(masters[c.l.cmd].port)>>],
                             !.l.pc = "gm_cmp"]}

\* lines 104-105: return self.sentinel.execute_command("SENTINEL", ...).
\* cmd 0 is MASTERS, cmd n > 0 is get-master-addr-by-name of master n
\* (MockStrictRedis.execute_command, test_client.py lines 35-46).
sentinel_exec(c) ==
    IF c.sentinel = 0
    THEN Raise(c, "AttributeError")
    ELSE LET d == [c EXCEPT !.l.asked = Append(c.l.asked, c.sentinel)]
         IN  IF ~sentinelUp[c.sentinel]
             THEN {[d EXCEPT !.l.failed = Append(@, c.sentinel),
                             !.l.pc = "sc_except"]}
             ELSE IF c.l.cmd = 0
             THEN {[d EXCEPT !.l.masterList = MastersReplyFrom(1),
                             !.l.pc = "gn_build"]}
             ELSE IF masters[c.l.cmd] = NoAddr
             THEN Raise(d, "KeyError")
             ELSE {[d EXCEPT !.l.reply =
                                 [host |-> masters[c.l.cmd].host,
                                  port |-> <<portRep, IntOf(masters[c.l.cmd].port)>>],
                             !.l.pc = "gm_cmp"]}

\* sentinel_except as if the handler of line 106 sent the request once more
\* on the connection that failed before it dropped it.
sentinel_except_again(c) ==
    IF c.sentinel # 0
       /\ Cardinality({i \in 1..Len(c.l.asked) : c.l.asked[i] = c.sentinel}) = 1
    THEN {[c EXCEPT !.l.pc = "sc_exec"]}
    ELSE {[c EXCEPT !.sentinel = 0, !.l.pc = "sc_pop"]}

\* lines 106-107: except ConnectionError: self.sentinel = None
sentinel_except(c) ==
    {[c EXCEPT !.sentinel = 0, !.l.pc = "sc_pop"]}

\* sentinel_pop as if line 109 were self.sentinel_addresses.pop(0).
sentinel_pop_front(c) ==
    IF c.sentinel_addresses # <<>>
    THEN {[c EXCEPT !.sentinel_addresses = Tail(c.sentinel_addresses),
                    !.l.pc = "sc_check"]}
    ELSE Raise(c, "SentinelConnectionError")

\* sentinel_pop as if the handler of line 106 always re-raised.
sentinel_pop_noretry(c) ==
    Raise([c EXCEPT !.sentinel_addresses =
                        IF c.sentinel_addresses = <<>> THEN <<>>
                        ELSE SubSeq(c.sentinel_addresses, 1,
                                    Len(c.sentinel_addresses) - 1)],
          "SentinelConnectionError")

\* sentinel_pop as if the client took up the addresses it was constructed
\* with again when the rotation is used up.
sentinel_pop_refill(c) ==
    IF c.sentinel_addresses # <<>>
    THEN {[c EXCEPT !.sentinel_addresses =
                        SubSeq(c.sentinel_addresses, 1, Len(c.sentinel_addresses) - 1),
                    !.l.pc = "sc_check"]}
    ELSE Raise([c EXCEPT !.sentinel_addresses = [i \in 1..NumSentinels |-> i]],
               "SentinelConnectionError")

\* lines 108-111: drop the last address of the rotation and loop, or re-raise
\* the ConnectionError when the rotation is empty.
sentinel_pop(c) ==
    IF c.sentinel_addresses # <<>>
    THEN {[c EXCEPT !.sentinel_addresses =
                        SubSeq(c.sentinel_addresses, 1, Len(c.sentinel_addresses) - 1),
                    !.l.pc = "sc_check"]}
    ELSE Raise(c, "SentinelConnectionError")

-----------------------------------------------------------------------------
(* _get_nodes, lines 113-121.                                              *)

\* line 117: masterList = self._execute_sentinel_command("MASTERS")
get_nodes_masters(c) ==
    {[c EXCEPT !.l.cmd = 0, !.l.asked = <<>>, !.l.pc = "sc_check"]}

\* get_nodes_build as if a master at the address of an earlier one of the
\* reply were skipped.
get_nodes_build_dedup(c) ==
    LET ml == c.l.masterList
        addr(i) == <<Info(ml[i], "ip"), Info(ml[i], "port")>>
        kept == {i \in 1..Len(ml) : \A j \in 1..(i - 1) : addr(j) # addr(i)}
        at(k) == CHOOSE i \in kept : Cardinality({j \in kept : j < i}) = k - 1
    IN  {[c EXCEPT !.nodes = [k \in 1..Cardinality(kept) |->
                                 Node(k, Info(ml[at(k)], "name"),
                                      Info(ml[at(k)], "ip"),
                                      Info(ml[at(k)], "port"))],
                   !.l.pc = "done", !.l.res = "ok"]}

\* lines 118-121: one Node per master, in the order of the reply.
get_nodes_build(c) ==
    LET ml == c.l.masterList
    IN  {[c EXCEPT !.nodes = [i \in 1..Len(ml) |->
                                 Node(i, Info(ml[i], "name"), Info(ml[i], "ip"),
                                      Info(ml[i], "port"))],
                   !.l.pc = "done", !.l.res = "ok"]}

-----------------------------------------------------------------------------
(* get_master, lines 123-134.                                              *)

\* get_master returns r: to the wrapper's line 56, or to the caller.
get_master_return(c, r) ==
    IF c.l.kind = "dispatch"
    THEN {[c EXCEPT !.l.node = r, !.l.ret = r, !.l.pc = "w_try2"]}
    ELSE {[c EXCEPT !.l.ret = r, !.l.res = "ok", !.l.pc = "done"]}

\* lines 128-129: host, port = self._execute_sentinel_command(
\*     "get-master-addr-by-name", node.name)
get_master_call(c) ==
    {[c EXCEPT !.l.cmd = c.l.node.name, !.l.asked = <<>>, !.l.pc = "sc_check"]}

\* get_master_compare as if line 130 were missing: always a new Node.
get_master_compare_always(c, live) ==
    {[c EXCEPT !.l.newNode = Node(FreshId(c, live), c.l.node.name,
                                  c.l.reply.host, c.l.reply.port),
               !.l.pc = "gm_index"]}

\* get_master_compare as if line 132 were Node(node.name, host, node.port).
get_master_compare_oldport(c, live) ==
    IF c.l.reply.host = c.l.node.host /\ c.l.reply.port = c.l.node.port
    THEN get_master_return(c, c.l.node)
    ELSE {[c EXCEPT !.l.newNode = Node(FreshId(c, live), c.l.node.name,
                                       c.l.reply.host, c.l.node.port),
                    !.l.pc = "gm_index"]}

\* get_master_compare as if line 130 compared int(port) with int(node.port).
get_master_compare_normalised(c, live) ==
    IF c.l.reply.host = c.l.node.host /\ IntOf(c.l.reply.port) = IntOf(c.l.node.port)
    THEN get_master_return(c, c.l.node)
    ELSE {[c EXCEPT !.l.newNode = Node(FreshId(c, live), c.l.node.name,
                                       c.l.reply.host, c.l.reply.port),
                    !.l.pc = "gm_index"]}

\* lines 130-132: the same address returns node, another one builds newNode.
get_master_compare(c, live) ==
    IF c.l.reply.host = c.l.node.host /\ c.l.reply.port = c.l.node.port
    THEN get_master_return(c, c.l.node)
    ELSE {[c EXCEPT !.l.newNode = Node(FreshId(c, live), c.l.node.name,
                                       c.l.reply.host, c.l.reply.port),
                    !.l.pc = "gm_index"]}

\* line 133, right-hand side first: self.nodes.index(node), a ValueError when
\* node is not in the list.
get_master_index(c) ==
    IF \E i \in 1..Len(c.nodes) : c.nodes[i].id = c.l.node.id
    THEN {[c EXCEPT !.l.idx = CHOOSE i \in 1..Len(c.nodes) :
                                  /\ c.nodes[i].id = c.l.node.id
                                  /\ \A j \in 1..(i - 1) : c.nodes[j].id # c.l.node.id,
                    !.l.pc = "gm_store"]}
    ELSE Raise(c, "ValueError")

\* get_master_store as if line 133 were self.nodes[0] = newNode.
get_master_store_first(c) ==
    get_master_return([c EXCEPT !.nodes[1] = c.l.newNode], c.l.newNode)

\* get_master_store as if line 133 were self.nodes.append(newNode).
get_master_store_append(c) ==
    get_master_return([c EXCEPT !.nodes = Append(c.nodes, c.l.newNode)],
                      c.l.newNode)

\* get_master_store as if line 133 were missing: newNode is returned and
\* self.nodes keeps the node that failed.
get_master_store_forget(c) ==
    get_master_return(c, c.l.newNode)

\* get_master_store as if line 133 stored newNode only while the entry still
\* is the node get_master was given (a compare-and-swap on the index).
get_master_store_guarded(c) ==
    IF c.nodes[c.l.idx].id = c.l.node.id
    THEN get_master_return([c EXCEPT !.nodes[c.l.idx] = c.l.newNode], c.l.newNode)
    ELSE get_master_return(c, c.nodes[c.l.idx])

\* lines 133-134: self.nodes[...] = newNode; return newNode
get_master_store(c) ==
    get_master_return([c EXCEPT !.nodes[c.l.idx] = c.l.newNode], c.l.newNode)

-----------------------------------------------------------------------------
(* get_node_for_key, lines 136-144, and the executeOnNode wrapper, 41-59.  *)

\* get_node_for_key as if every key went to the first node.
get_node_for_key_first(ns, key) == ns[1]

\* lines 142-144 on the table ns.
get_node_for_key(ns, key) == ns[RouteTable[Len(ns)][key] + 1]

\* The indexes line 144 computes for the keys of the model, by shard count.
RoutedIndexes ==
    [n \in 1..(NumShards + 1) |-> {RouteTable[n][k] : k \in Keys}]

\* The entries of ns that get_node_for_key returns for some key.
Routed(ns) == {ns[i + 1] : i \in RoutedIndexes[Len(ns)]}

\* lines 49-50: node = self.get_node_for_key(key); nodeFunc = getattr(...),
\* for a key that routes to node.
CallDispatch(node, op) ==
    [NoCall EXCEPT !.pc = "w_try1", !.kind = "dispatch", !.op = op,
                   !.node = node, !.first = node]

\* client.op(key, val): wrapper(self, key, *args, **kwargs), line 48.
CallCommand(op, key, val) ==
    [NoCall EXCEPT !.pc = "w_route", !.kind = "dispatch", !.op = op,
                   !.key = key, !.val = val]

\* line 49: node = self.get_node_for_key(key).  With None for the key,
\* '{' in key (line 142) is a TypeError.
wrapper_route(c) ==
    IF c.l.key = NoneKey THEN Raise(c, "TypeError")
    ELSE LET node == get_node_for_key(c.nodes, c.l.key)
         IN  {[c EXCEPT !.l.node = node, !.l.first = node, !.l.pc = "w_try1"]}

\* nodeFunc(key, *args, **kwargs) on node.connection: what the server at the
\* connection's endpoint answers.  pubsub builds a PubSub object on the
\* connection and sends nothing; get of a key the server does not hold is a
\* KeyError (MockStrictRedis.get, test_client.py lines 25-28).
NodeFunc(c, node) ==
    IF c.l.op = "pubsub" THEN "ok"
    ELSE IF Endpoint(node) \in serverDown THEN "ConnectionError"
    ELSE IF c.l.op = "badcmd" THEN "ResponseError"
    ELSE IF /\ c.l.op = "get"
            /\ c.l.key \in DataKeys
            /\ c.data[Endpoint(node)][c.l.key] = NoVal
    THEN "KeyError"
    ELSE "ok"

\* One call of nodeFunc on node.connection: its outcome is appended to outs, a
\* set that the server executes stores the value (MockStrictRedis.set,
\* test_client.py lines 30-33), a get returns the stored one.
Attempt(c, node) ==
    LET r == NodeFunc(c, node)
        e == Endpoint(node)
        tracked == r = "ok" /\ c.l.key \in DataKeys
    IN  [c EXCEPT !.l.tries = @ + 1,
                  !.l.outs = Append(@, r),
                  !.l.servedBy = IF r = "ok" THEN e ELSE @,
                  !.l.value = IF tracked /\ c.l.op = "get"
                              THEN c.data[e][c.l.key] ELSE @,
                  !.data = IF tracked /\ c.l.op = "set"
                           THEN [c.data EXCEPT ![e][c.l.key] = c.l.val] ELSE @]

\* The outcome of the call's latest attempt.
Outcome(c) == c.l.outs[Len(c.l.outs)]

\* wrapper_try as if line 53 were a bare except.
wrapper_try_catch_all(c) ==
    LET d == Attempt(c, c.l.node)
    IN  IF Outcome(d) # "ok" THEN {[d EXCEPT !.l.pc = "w_except"]}
        ELSE {[d EXCEPT !.l.pc = "done", !.l.res = Outcome(d)]}

\* lines 51-53: the first attempt; a ConnectionError is caught at line 53.
wrapper_try(c) ==
    LET d == Attempt(c, c.l.node)
    IN  IF Outcome(d) = "ConnectionError" THEN {[d EXCEPT !.l.pc = "w_except"]}
        ELSE {[d EXCEPT !.l.pc = "done", !.l.res = Outcome(d)]}

\* line 56: node = self.get_master(node)
wrapper_except(c) ==
    {[c EXCEPT !.l.gms = c.l.gms + 1, !.l.pc = "gm_call"]}

\* wrapper_retry as if a ConnectionError of the retry were tried once more.
wrapper_retry_third(c) ==
    LET d == Attempt(c, c.l.node)
    IN  IF Outcome(d) = "ConnectionError"
        THEN IF d.l.tries < 3 THEN {d} ELSE Raise(d, "ConnectionError")
        ELSE {[d EXCEPT !.l.pc = "done", !.l.res = Outcome(d)]}

\* wrapper_retry as if line 57 were missing: nodeFunc is still the method of
\* the first node's connection.
wrapper_retry_stale(c) ==
    LET d == Attempt(c, c.l.first)
    IN  IF Outcome(d) = "ConnectionError" THEN Raise(d, "ConnectionError")
        ELSE {[d EXCEPT !.l.pc = "done", !.l.res = Outcome(d)]}

\* wrapper_retry as if the wrapper gave up when get_master returned the node
\* it was given.
wrapper_retry_skip_same(c) ==
    IF c.l.node = c.l.first THEN Raise(c, "ConnectionError")
    ELSE LET d == Attempt(c, c.l.node)
         IN  IF Outcome(d) = "ConnectionError" THEN Raise(d, "ConnectionError")
             ELSE {[d EXCEPT !.l.pc = "done", !.l.res = Outcome(d)]}

\* wrapper_retry as if a ConnectionError of the retry put the first node back
\* at the index get_master stored newNode at.
wrapper_retry_rollback(c) ==
    LET d == Attempt(c, c.l.node)
    IN  IF Outcome(d) = "ConnectionError"
        THEN Raise(IF c.l.newNode # NoNode
                   THEN [d EXCEPT !.nodes[c.l.idx] = c.l.first] ELSE d,
                   "ConnectionError")
        ELSE {[d EXCEPT !.l.pc = "done", !.l.res = Outcome(d)]}

\* lines 57-58: the second attempt; whatever it raises leaves the call.
wrapper_retry(c) ==
    LET d == Attempt(c, c.l.node)
    IN  IF Outcome(d) = "ConnectionError" THEN Raise(d, "ConnectionError")
        ELSE {[d EXCEPT !.l.pc = "done", !.l.res = Outcome(d)]}

-----------------------------------------------------------------------------
(* The methods that are not single-key commands.                           *)

\* The methods whose body is raise NotImplementedError("Not supported for
\* disredis."): time (lines 231-236), publish (989-994), sinter (728-730).
NotSupported == {"time", "publish", "sinter"}

\* The methods that hand their keys to self.execute_command: delete (lines
\* 242-245) and smove (747-749).
ViaExecuteCommand == {"delete", "smove"}

\* client.op(...) for a method that is not wrapped by executeOnNode.
CallMethod(op) ==
    [NoCall EXCEPT !.pc = IF op \in NotSupported THEN "ni_raise" ELSE "ec_attr",
                   !.kind = "method", !.op = op]

\* raise NotImplementedError("Not supported for disredis.")
not_supported(c) == Raise(c, "NotImplementedError")

\* lines 245, 749: self.execute_command.  DisredisClient derives from object
\* (line 62) and defines no execute_command: the attribute lookup is an
\* AttributeError.
execute_command(c) == Raise(c, "AttributeError")

-----------------------------------------------------------------------------
(* One step of the running frame, and a call run to its end.               *)

\* live: the identities other frames hold.
Step(c, live) ==
    CASE c.l.pc = "gn_masters" -> get_nodes_masters(c)
      [] c.l.pc = "gn_build"   -> get_nodes_build(c)
      [] c.l.pc = "sc_check"   -> sentinel_check(c)
      [] c.l.pc = "sc_exec"    -> sentinel_exec(c)
      [] c.l.pc = "sc_except"  -> sentinel_except(c)
      [] c.l.pc = "sc_pop"     -> sentinel_pop(c)
      [] c.l.pc = "cn_pop"     -> connect_pop(c)
      [] c.l.pc = "cn_new"     -> connect_new(c)
      [] c.l.pc = "cn_append"  -> connect_append(c)
      [] c.l.pc = "gm_call"    -> get_master_call(c)
      [] c.l.pc = "gm_cmp"     -> get_master_compare(c, live)
      [] c.l.pc = "gm_index"   -> get_master_index(c)
      [] c.l.pc = "gm_store"   -> get_master_store(c)
      [] c.l.pc = "w_route"    -> wrapper_route(c)
      [] c.l.pc = "w_try1"     -> wrapper_try(c)
      [] c.l.pc = "w_except"   -> wrapper_except(c)
      [] c.l.pc = "w_try2"     -> wrapper_retry(c)
      [] c.l.pc = "ni_raise"   -> not_supported(c)
      [] c.l.pc = "ec_attr"    -> execute_command(c)

RECURSIVE RunSet(_)
RunSet(c) ==
    IF c.l.pc = "done" THEN {c}
    ELSE UNION {RunSet(d) : d \in Step(c, {})}

\* Object identities carry no meaning beyond equality.  When a call has ended
\* the objects are renumbered: the Node at index i of self.nodes becomes i, a
\* Node that is in the list no more (the one get_master replaced) Len + 1.
Renumber(ns, node) ==
    IF node.id = 0 THEN node
    ELSE IF \E i \in 1..Len(ns) : ns[i].id = node.id
    THEN [node EXCEPT !.id = CHOOSE i \in 1..Len(ns) : ns[i].id = node.id]
    ELSE [node EXCEPT !.id = Len(ns) + 1]

\* The client's state and the call's record after a call that ended as c.
Finish(c) ==
    /\ nodes' = [i \in 1..Len(c.nodes) |-> Renumber(c.nodes, c.nodes[i])]
    /\ sentinel' = c.sentinel
    /\ sentinel_addresses' = c.sentinel_addresses
    /\ last' = [c.l EXCEPT !.node = Renumber(c.nodes, c.l.node),
                           !.first = Renumber(c.nodes, c.l.first),
                           !.ret = Renumber(c.nodes, c.l.ret),
                           !.newNode = Renumber(c.nodes, c.l.newNode)]
    /\ data' = c.data
    /\ UNCHANGED <<masters, sentinelUp, serverDown, portRep, frames, origin>>

-----------------------------------------------------------------------------
(* The public calls, each run to completion.                               *)

\* client = DisredisClient(sentinel_addresses)
Construct ==
    /\ ctor = "pending"
    /\ \E c \in RunSet(Config(CallInit)) :
          /\ Finish(c)
          /\ ctor' = IF c.l.res = "ok" THEN "done" ELSE "failed"

\* A single-key command through executeOnNode: client.set(key, ...), ...
Dispatch ==
    /\ ctor = "done"
    /\ \E node \in Routed(nodes), op \in Ops :
          \E c \in RunSet(Config(CallDispatch(node, op))) :
              /\ Finish(c)
              /\ UNCHANGED ctor

\* client.get_master(client.nodes[i])
GetMaster ==
    /\ ctor = "done"
    /\ \E i \in 1..Len(nodes) :
          \E c \in RunSet(Config(CallGetMaster(nodes[i]))) :
              /\ Finish(c)
              /\ UNCHANGED ctor

\* client.set(key, val) or client.get(key) for a key of DataKeys.
Command ==
    /\ ctor = "done"
    /\ \E key \in DataKeys, val \in Vals \cup {NoVal} :
          \E c \in RunSet(Config(CallCommand(IF val = NoVal THEN "get" ELSE "set",
                                             key, val))) :
              /\ Finish(c)
              /\ UNCHANGED ctor

\* client.pubsub(shard_hint): pubsub is wrapped by executeOnNode (lines
\* 183-184), its argument is the wrapper's key.
Pubsub ==
    /\ ctor = "done"
    /\ \E hint \in DataKeys \cup {NoneKey} :
          \E c \in RunSet(Config(CallCommand("pubsub", hint, NoVal))) :
              /\ Finish(c)
              /\ UNCHANGED ctor

\* client.time(), client.publish(...), client.delete(...), ...
Method ==
    /\ ctor = "done"
    /\ \E op \in NotSupported \cup ViaExecuteCommand :
          \E c \in RunSet(Config(CallMethod(op))) :
              /\ Finish(c)
              /\ UNCHANGED ctor

-----------------------------------------------------------------------------
(* The environment: the Sentinel tier and the Redis servers.               *)

\* The client does nothing; the record of its last call is dropped.
EnvStep ==
    /\ last' = NoCall
    /\ UNCHANGED <<nodes, sentinel, sentinel_addresses, ctor, data, portRep,
                   frames, origin>>

\* A Sentinel member stops answering, or answers again.
SentinelFlip ==
    /\ \E s \in SentinelIds : sentinelUp' = [sentinelUp EXCEPT ![s] = ~@]
    /\ UNCHANGED <<masters, serverDown>>
    /\ EnvStep

\* A Redis server goes down, or comes back.
ServerFlip ==
    /\ \E e \in Endpoints :
          serverDown' = IF e \in serverDown THEN serverDown \ {e}
                        ELSE serverDown \cup {e}
    /\ UNCHANGED <<masters, sentinelUp>>
    /\ EnvStep

\* Failover as if the client followed the Sentinel tier in the background.
FailoverRepair ==
    /\ \E n \in ShardNames, a \in Addrs :
          /\ a # masters[n]
          /\ masters' = [masters EXCEPT ![n] = a]
          /\ nodes' = [i \in 1..Len(nodes) |->
                          IF nodes[i].name = n THEN Node(i, n, a.host, a.port)
                          ELSE nodes[i]]
    /\ last' = NoCall
    /\ UNCHANGED <<sentinel, sentinel_addresses, ctor, data, portRep,
                   sentinelUp, serverDown, frames, origin>>

\* The Sentinel tier fails a master over to another address (or monitors it
\* again).
Failover ==
    /\ \E n \in ShardNames, a \in Addrs :
          /\ a # masters[n]
          /\ masters' = [masters EXCEPT ![n] = a]
    /\ UNCHANGED <<sentinelUp, serverDown>>
    /\ EnvStep

\* The Sentinel tier stops monitoring a master the client was built with.
Forget ==
    /\ ctor = "done"
    /\ \E n \in ShardNames :
          /\ masters[n] # NoAddr
          /\ masters' = [masters EXCEPT ![n] = NoAddr]
    /\ UNCHANGED <<sentinelUp, serverDown>>
    /\ EnvStep

\* The Sentinel connection hands the port of get-master-addr-by-name to the
\* client in the other representation from now on (an integer where it was a
\* decimal string, or back).
PortRepFlip ==
    /\ ctor = "done"
    /\ portRep' = IF portRep = "str" THEN "int" ELSE "str"
    /\ last' = NoCall
    /\ UNCHANGED <<nodes, sentinel, sentinel_addresses, ctor, masters,
                   sentinelUp, serverDown, data, frames, origin>>

\* The state before DisredisClient(sentinel_addresses): the class attributes
\* sentinel = None and nodes = None (lines 69-70), the addresses as given, the
\* masters as MockStrictRedis lists them (test_client.py lines 22-23).
Init ==
    /\ nodes = <<>>
    /\ sentinel = 0
    /\ sentinel_addresses = [i \in 1..NumSentinels |-> i]
    /\ ctor = "pending"
    /\ masters = [n \in ShardNames |-> [host |-> "1.2.3.4", port |-> <<"str", n>>]]
    /\ sentinelUp = [s \in SentinelIds |-> TRUE]
    /\ serverDown = {}
    /\ data = [e \in Endpoints |-> NoData]
    /\ portRep = "str"
    /\ last = NoCall
    /\ frames = [t \in Threads |-> NoCall]
    /\ origin = NoOrigin

Next ==
    \/ Construct
    \/ Dispatch
    \/ GetMaster
    \/ SentinelFlip
    \/ ServerFlip
    \/ Failover
    \/ Forget

Spec == Init /\ [][Next]_vars

\* The client with the servers' data: set and get of the keys of DataKeys
\* while servers fail and the Sentinel tier fails masters over.
NextData ==
    \/ Construct
    \/ Command
    \/ ServerFlip
    \/ Failover

SpecData == Init /\ [][NextData]_vars

\* The client's methods, wrapped by executeOnNode or not, while servers and
\* Sentinel members fail and the masters stay where they are.
NextApi ==
    \/ Construct
    \/ Command
    \/ Pubsub
    \/ Method
    \/ ServerFlip
    \/ SentinelFlip

SpecApi == Init /\ [][NextApi]_vars

\* The client while the representation of the reported port changes, servers
\* fail and the Sentinel tier fails masters over.
NextPort ==
    \/ Construct
    \/ Dispatch
    \/ GetMaster
    \/ ServerFlip
    \/ Failover
    \/ PortRepFlip

SpecPort == Init /\ [][NextPort]_vars

-----------------------------------------------------------------------------
(* Two threads that share one client.  Each thread makes one call; a step  *)
(* of the system is one statement of one thread's call (Step), so that the *)
(* statements of the two calls interleave in every order.                  *)

\* No thread has called the client yet.
Quiet == \A t \in Threads : frames[t].kind = "none"

\* Thread t is inside its call.
Running(t) == frames[t].pc # "done"

\* The Nodes the threads other than t hold in local variables.
HeldIds(t) ==
    UNION {{frames[u].node.id, frames[u].first.id, frames[u].newNode.id,
            frames[u].ret.id} : u \in Threads \ {t}}

\* The calls a thread makes: client.set(key, ...) for a key of either routed
\* node, or client.get_master(client.nodes[i]).
Calls ==
    {CallDispatch(node, "set") : node \in Routed(nodes)}
    \cup {CallGetMaster(nodes[i]) : i \in 1..Len(nodes)}

\* Before the threads start: a Sentinel member or a server changes state, or
\* a master is failed over.
SetupSentinel == ctor = "done" /\ Quiet /\ SentinelFlip

SetupServer == ctor = "done" /\ Quiet /\ ServerFlip

SetupFailover == ctor = "done" /\ Quiet /\ Failover

\* Thread t enters its call (the threads start in their order; a thread can
\* start when the one before it has run any number of statements).
Begin(t) ==
    /\ ctor = "done"
    /\ frames[t].kind = "none"
    /\ \A u \in Threads : u < t => frames[u].kind # "none"
    /\ \E call \in Calls : frames' = [frames EXCEPT ![t] = call]
    /\ origin' = IF origin.set THEN origin
                 ELSE [set |-> TRUE, steady |-> TRUE, nodes |-> nodes,
                       sentinel |-> sentinel,
                       sentinel_addresses |-> sentinel_addresses]
    /\ UNCHANGED <<nodes, sentinel, sentinel_addresses, ctor, masters,
                   sentinelUp, serverDown, data, portRep, last>>

\* Thread t executes the next statement of its call.
ThreadStep(t) ==
    /\ Running(t)
    /\ \E d \in Step(Config(frames[t]), HeldIds(t)) :
          /\ nodes' = d.nodes
          /\ sentinel' = d.sentinel
          /\ sentinel_addresses' = d.sentinel_addresses
          /\ data' = d.data
          /\ frames' = [frames EXCEPT ![t] = d.l]
    /\ UNCHANGED <<ctor, masters, sentinelUp, serverDown, portRep, last, origin>>

\* The Sentinel tier fails a master over while a thread is inside its call
\* (once).
FailoverDuring ==
    /\ origin.set
    /\ origin.steady
    /\ \E t \in Threads : Running(t)
    /\ \E n \in ShardNames, a \in Addrs :
          /\ a # masters[n]
          /\ masters' = [masters EXCEPT ![n] = a]
    /\ origin' = [origin EXCEPT !.steady = FALSE]
    /\ UNCHANGED <<nodes, sentinel, sentinel_addresses, ctor, sentinelUp,
                   serverDown, data, portRep, last, frames>>

NextConc ==
    \/ Construct
    \/ SetupSentinel
    \/ SetupServer
    \/ SetupFailover
    \/ \E t \in Threads : Begin(t)
    \/ \E t \in Threads : ThreadStep(t)

SpecConc == Init /\ [][NextConc]_vars

\* The two threads with every Sentinel member up, while the Sentinel tier
\* fails a master over.
NextRace ==
    \/ Construct
    \/ SetupServer
    \/ SetupFailover
    \/ \E t \in Threads : Begin(t)
    \/ \E t \in Threads : ThreadStep(t)
    \/ FailoverDuring

SpecRace == Init /\ [][NextRace]_vars

-----------------------------------------------------------------------------
(* Properties.                                                             *)

\* The last call sent a request to the Sentinel tier.
AskedSentinel(l) == l.kind \in {"init", "get_master"} \/ l.gms > 0

\* get_master got an answer for its node in the last call.
Answered(l) == l.kind \in {"get_master", "dispatch"} /\ l.reply # NoAddr

SameAddress(a, b) == a.host = b.host /\ a.port = b.port

Range(s) == {s[i] : i \in 1..Len(s)}

\* C1: a dispatch attempts the command at most twice and calls get_master at
\* most once; when the first attempt and the retry both meet a server that is
\* down, the call ends with the ConnectionError after the second attempt.
C1_AtMostOneRetry ==
    last.kind = "dispatch" =>
        /\ last.tries \in 1..2
        /\ last.gms \in 0..1
        /\ (/\ Endpoint(last.first) \in serverDown
            /\ last.tries = 2
            /\ Endpoint(last.node) \in serverDown)
           => last.res = "ConnectionError"

C1_Witness ==
    /\ last.kind = "dispatch"
    /\ last.tries = 2
    /\ last.gms = 1
    /\ last.res = "ConnectionError"
    /\ Endpoint(last.first) \in serverDown
    /\ Endpoint(last.node) \in serverDown

\* C2: when the routed node's server is down and the Sentinel tier reports
\* another address whose server is up, the command succeeds, it is executed by
\* the server at the reported address, and the entry of self.nodes the node
\* occupied holds the reported address afterwards.
C2_FailoverSucceeds ==
    (/\ last.kind = "dispatch"
     /\ last.op = "set"
     /\ Endpoint(last.first) \in serverDown
     /\ Answered(last)
     /\ ~SameAddress(last.reply, last.first)
     /\ <<last.reply.host, IntOf(last.reply.port)>> \notin serverDown)
    => /\ last.res = "ok"
       /\ last.tries = 2
       /\ last.servedBy = <<last.reply.host, IntOf(last.reply.port)>>
       /\ last.idx \in 1..Len(nodes)
       /\ nodes[last.idx].name = last.first.name
       /\ SameAddress(nodes[last.idx], last.reply)

C2_Witness ==
    /\ last.kind = "dispatch"
    /\ last.op = "set"
    /\ Endpoint(last.first) \in serverDown
    /\ Answered(last)
    /\ ~SameAddress(last.reply, last.first)
    /\ last.res = "ok"
    /\ SameAddress(nodes[last.idx], last.reply)

\* C3: once the client is constructed, no step changes the length of
\* self.nodes or the name of the Node at any index.
C3_TableShapeFixed ==
    [][ctor = "done" =>
          /\ Len(nodes') = Len(nodes)
          /\ \A i \in 1..Len(nodes) : nodes'[i].name = nodes[i].name]_vars

\* A fail-over replacement has been made in the table.
C3_Witness ==
    /\ ctor = "done"
    /\ last.kind = "get_master"
    /\ last.res = "ok"
    /\ last.ret.id # last.first.id
    /\ nodes[last.idx] = last.ret

\* Whether every key has the same index with m and with n shards.
SameRouting ==
    [m \in 1..(NumShards + 1), n \in 1..(NumShards + 1) |->
        \A k \in Keys : RouteTable[m][k] = RouteTable[n][k]]

\* C4: once the client is constructed, no step (fail-over replacements
\* included) changes the index get_node_for_key computes for any key, nor the
\* master that the entry at a routed index stands for.
C4_RoutingStable ==
    [][ctor = "done" =>
          /\ SameRouting[Len(nodes), Len(nodes')]
          /\ \A i \in RoutedIndexes[Len(nodes)] :
                 nodes'[i + 1].name = nodes[i + 1].name]_vars

\* A dispatch has replaced the entry it was routed to.
C4_Witness ==
    /\ ctor = "done"
    /\ last.kind = "dispatch"
    /\ last.res = "ok"
    /\ last.gms = 1
    /\ last.newNode # NoNode
    /\ last.ret.id # last.first.id
    /\ nodes[last.idx] = last.ret

\* The hash input as the specification states it: the substring strictly
\* between the first "{" and the first "}" after it, and the whole key when no
\* "}" follows the first "{".
ClaimedHashInput(key) ==
    IF \E i \in 1..Len(key), j \in 1..Len(key) :
           i < j /\ key[i] = "{" /\ key[j] = "}"
    THEN LET i == IndexOf(key, "{")
             j == CHOOSE j \in (i + 1)..Len(key) :
                      key[j] = "}" /\ \A m \in (i + 1)..(j - 1) : key[m] # "}"
         IN  SubSeq(key, i + 1, j - 1)
    ELSE key

\* ClaimedHashInput for every key of the model, computed once.
ClaimedInputOf == [k \in Keys |-> ClaimedHashInput(k)]

\* C5: keys whose hash-tag-extracted substrings are identical are routed to
\* the same entry of self.nodes.
C5_SameTagSameNode ==
    ctor = "done" =>
        \A k1 \in Keys, k2 \in Keys :
            ClaimedInputOf[k1] = ClaimedInputOf[k2]
            => get_node_for_key(nodes, k1) = get_node_for_key(nodes, k2)

\* C6: the string get_node_for_key hashes is the substring strictly between
\* the first "{" and the first "}" after it, and the whole key when there is
\* no such pair.
C6_HashInputIsTag ==
    ctor = "done" =>
        \A k \in Keys : HashInput(k) = ClaimedInputOf[k]

\* The last call was get_master, by itself or inside a dispatch, and the
\* Sentinel tier answered it.
Refreshed(l) == Answered(l) /\ l.res # "KeyError"

\* C7: when the Sentinel tier reports the host and port the node already has,
\* get_master returns the very node it was given, builds no Node (so opens no
\* connection) and leaves self.nodes as it was.
C7_SameAddressSameNode ==
    [][(Refreshed(last') /\ SameAddress(last'.reply, last'.first))
       => /\ last'.ret = last'.first
          /\ last'.newNode = NoNode
          /\ nodes' = nodes]_vars

C7_Witness ==
    /\ last.kind = "get_master"
    /\ Refreshed(last)
    /\ SameAddress(last.reply, last.first)
    /\ last.res = "ok"
    /\ last.ret = last.first

\* C8: when the Sentinel tier reports a host or a port other than the node's,
\* get_master returns a new Node, distinct from the one given, with the same
\* name and the reported address, stores it at the index the given node had
\* and changes no other entry.
C8_NewAddressNewNode ==
    [][(Refreshed(last') /\ ~SameAddress(last'.reply, last'.first))
       => \E i \in 1..Len(nodes) :
             /\ nodes[i].name = last'.first.name
             /\ SameAddress(nodes[i], last'.first)
             /\ last'.ret.id # last'.first.id
             /\ last'.ret.name = last'.first.name
             /\ SameAddress(last'.ret, last'.reply)
             /\ Len(nodes') = Len(nodes)
             /\ nodes'[i] = last'.ret
             /\ \A j \in 1..Len(nodes) : j # i => nodes'[j] = nodes[j]]_vars

C8_Witness ==
    /\ last.kind = "get_master"
    /\ Refreshed(last)
    /\ last.res = "ok"
    /\ last.reply.host = last.first.host
    /\ last.reply.port # last.first.port
    /\ last.ret.id # last.first.id
    /\ nodes[last.idx] = last.ret

\* C9: when the Sentinel connection in use is to a member A that is down and
\* the rotation holds a member that is up, the request is answered by such a
\* member B with no error for the caller, A is dropped from the rotation and
\* B is the connection in use afterwards; and a request made while the
\* connection in use is to a member that is up is answered by that member and
\* leaves the connection and the rotation as they are.
C9_SentinelFailover ==
    [][(AskedSentinel(last') /\ sentinel # 0)
       => /\ (/\ ~sentinelUp[sentinel]
              /\ \E b \in Range(sentinel_addresses) : sentinelUp[b])
             => /\ last'.res # "SentinelConnectionError"
                /\ Len(last'.asked) >= 2
                /\ last'.asked[1] = sentinel
                /\ sentinelUp[last'.asked[Len(last'.asked)]]
                /\ last'.asked[Len(last'.asked)] \in Range(sentinel_addresses)
                /\ sentinel' = last'.asked[Len(last'.asked)]
                /\ sentinel \notin Range(sentinel_addresses')
                /\ sentinel' \in Range(sentinel_addresses')
          /\ sentinelUp[sentinel]
             => /\ last'.asked = <<sentinel>>
                /\ last'.res # "SentinelConnectionError"
                /\ sentinel' = sentinel
                /\ sentinel_addresses' = sentinel_addresses]_vars

C9_Witness ==
    /\ last.kind = "get_master"
    /\ last.res = "ok"
    /\ Len(last.asked) = 2
    /\ ~sentinelUp[last.asked[1]]
    /\ sentinelUp[last.asked[2]]
    /\ sentinel = last.asked[2]
    /\ last.asked[1] \notin Range(sentinel_addresses)

\* C10: a request to the Sentinel tier ends with the ConnectionError of an
\* exhausted rotation exactly when no member of the rotation is up: then every
\* address has been dropped; and when a member of the rotation is up, the
\* request is answered by a member that is up.
C10_DiscoveryUnavailable ==
    [][AskedSentinel(last')
       => /\ (\A s \in Range(sentinel_addresses) : ~sentinelUp[s])
             => /\ last'.res = "SentinelConnectionError"
                /\ sentinel_addresses' = <<>>
                /\ sentinel' = 0
          /\ (\E s \in Range(sentinel_addresses) : sentinelUp[s])
             => /\ last'.res # "SentinelConnectionError"
                /\ last'.asked # <<>>
                /\ sentinelUp[last'.asked[Len(last'.asked)]]]_vars

C10_Witness ==
    /\ last.kind = "get_master"
    /\ last.res = "SentinelConnectionError"
    /\ Len(last.asked) >= 2
    /\ sentinel_addresses = <<>>

\* C11: a method outside the single-key contract raises NotImplementedError
\* in every state: it selects no node, sends nothing to the Sentinel tier,
\* attempts nothing on a server, and leaves the node table, the Sentinel
\* rotation and the servers' data as they are.
C11_UnsupportedRaises ==
    [][last'.kind = "method" =>
           /\ last'.res = "NotImplementedError"
           /\ last'.first = NoNode
           /\ last'.asked = <<>>
           /\ last'.tries = 0
           /\ last'.gms = 0
           /\ UNCHANGED <<nodes, sentinel, sentinel_addresses, data>>]_vars

\* C12: delete(*names) and smove(src, dst, value) end with the error time()
\* and publish() end with, NotImplementedError.
C12_MultiKeyUnsupported ==
    (last.kind = "method" /\ last.op \in {"delete", "smove", "time", "publish"})
        => last.res = "NotImplementedError"

\* C13: a pubsub call, whatever its argument, selects no node through
\* get_node_for_key and runs on no node's connection.
C13_PubsubNotRouted ==
    last.op = "pubsub" =>
        /\ last.first = NoNode
        /\ last.tries = 0
        /\ last.servedBy = NoCall.servedBy

\* The node table after the call, were line 133 the call's only write to it.
AfterStore(l) ==
    IF l.newNode = NoNode \/ l.idx = 0 THEN nodes
    ELSE [nodes EXCEPT ![l.idx] = l.newNode]

\* C14: an error reply of the server (not a ConnectionError) ends the
\* dispatch with that error, at the first attempt or at the retry: no attempt
\* follows it and it starts no get_master.  At the first attempt the Sentinel
\* tier is not asked and the node table and the rotation are unchanged; at
\* the retry the table is as the get_master before it left it.
C14_AppErrorPropagates ==
    [][last'.kind = "dispatch" =>
           \A i \in 1..Len(last'.outs) :
               last'.outs[i] = "ResponseError" =>
                   /\ i = Len(last'.outs)
                   /\ last'.res = "ResponseError"
                   /\ last'.tries = i
                   /\ last'.gms = i - 1
                   /\ nodes' = AfterStore(last')
                   /\ i = 1 => /\ last'.asked = <<>>
                               /\ last'.newNode = NoNode
                               /\ UNCHANGED <<nodes, sentinel, sentinel_addresses>>]_vars

\* The retry, on the new master after a fail-over, got an error reply.
C14_Witness ==
    /\ last.kind = "dispatch"
    /\ last.outs = <<"ConnectionError", "ResponseError">>
    /\ last.newNode # NoNode
    /\ last.res = "ResponseError"

\* C15: after construction the node table has one Node per entry of the
\* Sentinel tier's list of masters, in the list's order, with the entry's
\* name, host and port; entries at equal addresses are all kept.
C15_TableFromDiscovery ==
    (last.kind = "init" /\ last.res = "ok") =>
        /\ Len(last.masterList) = Cardinality({n \in ShardNames : masters[n] # NoAddr})
        /\ \A n \in ShardNames :
               last.masterList[n] =
                   <<"name", n, "ip", masters[n].host, "port", masters[n].port>>
        /\ Len(nodes) = Len(last.masterList)
        /\ \A i \in 1..Len(nodes) :
               /\ nodes[i].name = last.masterList[i][2]
               /\ nodes[i].host = last.masterList[i][4]
               /\ nodes[i].port = last.masterList[i][6]

\* The client was constructed while both masters were at one address.
C15_Witness ==
    /\ last.kind = "init"
    /\ last.res = "ok"
    /\ Len(nodes) = 2
    /\ masters[1] = masters[2]
    /\ masters[1].host = "2.2.3.4"

\* The digest d as a non-negative big-endian integer, modulo n: the sum of
\* its words d[i], each weighted 65536^(Len(d) - i).
RECURSIVE PowMod(_, _, _)
PowMod(b, e, n) == IF e = 0 THEN 1 % n ELSE (b * PowMod(b, e - 1, n)) % n

RECURSIVE WeightedSum(_, _, _)
WeightedSum(d, i, n) ==
    IF i > Len(d) THEN 0
    ELSE d[i] * PowMod(65536 % n, Len(d) - i, n) + WeightedSum(d, i + 1, n)

BigEndianMod(d, n) == WeightedSum(d, 1, n) % n

\* The index of every key of the model is its hash input's digest as a
\* big-endian integer modulo the number of nodes.
IndexIsBigEndianMod ==
    \A n \in 1..(NumShards + 1), k \in Keys :
        RouteTable[n][k] = BigEndianMod(sha1(HashInput(k)), n)

\* C16: a dispatch that succeeds changes the data of the server of the node
\* at the key's index, for that key only, and of no other server: set stores
\* its value there, get changes nothing.  A get of a key right after a set of
\* it that succeeded returns the value set.
C16_OnlyRoutedShardChanges ==
    [][/\ (last'.kind = "dispatch" /\ last'.res = "ok" /\ last'.key \in DataKeys) =>
              LET e == Endpoint(nodes'[RouteTable[Len(nodes)][last'.key] + 1])
              IN  /\ \A f \in Endpoints \ {e} : data'[f] = data[f]
                  /\ \A k \in DataKeys \ {last'.key} : data'[e][k] = data[e][k]
                  /\ last'.servedBy = e
                  /\ last'.op = "set" => data'[e][last'.key] = last'.val
                  /\ last'.op = "get" => data' = data
       /\ (/\ last.kind = "dispatch" /\ last.op = "set" /\ last.res = "ok"
           /\ last'.kind = "dispatch" /\ last'.op = "get"
           /\ last'.key = last.key) =>
              /\ last'.res = "ok"
              /\ last'.value = last.val]_vars

\* A get returned the value a set had stored on the master the Sentinel tier
\* failed the key's shard over to, while the other servers hold other data.
C16_Witness ==
    /\ last.kind = "dispatch"
    /\ last.op = "get"
    /\ last.key = <<"1">>
    /\ last.res = "ok"
    /\ last.value = "foo"
    /\ last.servedBy = <<"2.2.3.4", 1>>
    /\ data[<<"1.2.3.4", 2>>][<<"1">>] = NoVal
    /\ data[<<"1.2.3.4", 1>>][<<"2">>] = "foo"

\* C17: the node of a key is the one at the index that is the SHA-1 digest of
\* the key's hash input, read as a big-endian integer, modulo the number of
\* nodes; with two nodes "1", "2" and "3" are at indexes 1, 0 and 1.
C17_IndexIsDigestMod ==
    /\ IndexIsBigEndianMod
    /\ ctor = "done" =>
           /\ \A k \in DataKeys \cup {<<"3">>} :
                  get_node_for_key(nodes, k) =
                      nodes[BigEndianMod(sha1(k), Len(nodes)) + 1]
           /\ Len(nodes) = 2 =>
                  /\ get_node_for_key(nodes, <<"1">>) = nodes[1 + 1]
                  /\ get_node_for_key(nodes, <<"2">>) = nodes[0 + 1]
                  /\ get_node_for_key(nodes, <<"3">>) = nodes[1 + 1]
    /\ (last.kind = "dispatch" /\ last.key \in DataKeys) =>
           last.first.name = BigEndianMod(sha1(last.key), Len(nodes)) + 1

\* Commands for "1" and "2" have been served by different masters: "2" by
\* node1's, "1" by node2's.
C17_Witness ==
    /\ last.kind = "dispatch"
    /\ last.key = <<"1">>
    /\ last.res = "ok"
    /\ last.first.name = 2
    /\ last.first = nodes[2]
    /\ data[Endpoint(nodes[1])][<<"2">>] = "foo"
    /\ data[Endpoint(nodes[1])][<<"1">>] = NoVal

\* The dispatch called get_master and get_master raised.
RefreshFailed(l) == l.kind = "dispatch" /\ l.gms = 1 /\ l.ret = NoNode

\* C18: when the get_master of a dispatch fails, because the rotation ran out
\* of Sentinel addresses or because the Sentinel tier does not know the
\* node's master, the dispatch ends with that error, the command is not
\* attempted a second time and the node table is unchanged.
C18_RefreshFailureIsFatal ==
    [][RefreshFailed(last') =>
           /\ last'.res \in {"SentinelConnectionError", "KeyError"}
           /\ last'.res = "SentinelConnectionError" => sentinel_addresses' = <<>>
           /\ last'.res = "KeyError" => masters[last'.first.name] = NoAddr
           /\ last'.tries = 1
           /\ last'.outs = <<"ConnectionError">>
           /\ last'.newNode = NoNode
           /\ nodes' = nodes]_vars

\* The Sentinel tier had dropped the master of the node whose server refused
\* the command.
C18_Witness ==
    /\ RefreshFailed(last)
    /\ last.res = "KeyError"
    /\ last.asked # <<>>
    /\ masters[last.first.name] = NoAddr

\* C19: when the first attempt ends in a ConnectionError and the Sentinel tier
\* reports the address the node already has, the command is attempted once
\* more, on the same Node; the node table is unchanged and the caller gets
\* what the second attempt gave.
C19_SameAddressRetry ==
    [][(/\ last'.kind = "dispatch"
        /\ last'.outs # <<>>
        /\ last'.outs[1] = "ConnectionError"
        /\ last'.reply # NoAddr
        /\ SameAddress(last'.reply, last'.first)) =>
           /\ last'.tries = 2
           /\ Len(last'.outs) = 2
           /\ last'.gms = 1
           /\ last'.ret = last'.first
           /\ last'.node = last'.first
           /\ last'.newNode = NoNode
           /\ nodes' = nodes
           /\ last'.first \in Range(nodes')
           /\ last'.res = last'.outs[2]]_vars

\* The server was down, the Sentinel tier had not failed it over, and the
\* second attempt on the same Node failed as the first.
C19_Witness ==
    /\ last.kind = "dispatch"
    /\ last.outs = <<"ConnectionError", "ConnectionError">>
    /\ SameAddress(last.reply, last.first)
    /\ last.ret = last.first
    /\ last.res = "ConnectionError"

\* C20: a dispatch whose first attempt does not end in a ConnectionError
\* sends nothing to the Sentinel tier and leaves the node table, the Sentinel
\* connection and the rotation unchanged.  The node table changes in the
\* constructor and in a get_master, which a dispatch calls only after a
\* ConnectionError; it changes in no step of the environment.
C20_NoBackgroundRepair ==
    [][/\ (/\ last'.kind = "dispatch"
           /\ last'.outs # <<>>
           /\ last'.outs[1] # "ConnectionError") =>
              /\ last'.asked = <<>>
              /\ last'.gms = 0
              /\ last'.tries = 1
              /\ UNCHANGED <<nodes, sentinel, sentinel_addresses>>
       /\ nodes' # nodes =>
              \/ last'.kind = "init"
              \/ last'.kind = "get_master" /\ last'.newNode # NoNode
              \/ /\ last'.kind = "dispatch"
                 /\ last'.outs[1] = "ConnectionError"
                 /\ last'.gms = 1
                 /\ last'.newNode # NoNode]_vars

\* A command was served at the first attempt by a node the Sentinel tier has
\* failed over: the table still has the old address.
C20_Witness ==
    /\ last.kind = "dispatch"
    /\ last.outs = <<"ok">>
    /\ masters[last.first.name] # NoAddr
    /\ ~SameAddress(masters[last.first.name], last.first)
    /\ last.first \in Range(nodes)

\* The server the Sentinel tier reports for master n.
MasterEndpoint(n) == <<masters[n].host, IntOf(masters[n].port)>>

\* C21: a dispatch made while the Sentinel tier reports, for the master of the
\* routed node, an address whose server is up, and while some member of the
\* rotation answers, succeeds; the entry of that master in self.nodes is then
\* at a server that is up, and it is at the reported address whenever the first
\* attempt met a server that was down.
C21_SelfHealing ==
    [][(/\ last'.kind = "dispatch"
        /\ last'.op = "set"
        /\ masters[last'.first.name] # NoAddr
        /\ MasterEndpoint(last'.first.name) \notin serverDown
        /\ \E s \in Range(sentinel_addresses) : sentinelUp[s])
       => /\ last'.res = "ok"
          /\ \A i \in 1..Len(nodes') :
                 nodes'[i].name = last'.first.name
                 => /\ Endpoint(nodes'[i]) \notin serverDown
                    /\ last'.tries = 2
                       => Endpoint(nodes'[i]) = MasterEndpoint(last'.first.name)]_vars

\* The routed node's server was down, the first Sentinel member asked did not
\* answer, the second reported the new address, and the retry succeeded there.
C21_Witness ==
    /\ last.kind = "dispatch"
    /\ last.op = "set"
    /\ last.outs = <<"ConnectionError", "ok">>
    /\ Len(last.asked) = 2
    /\ Endpoint(last.first) \in serverDown
    /\ last.idx \in 1..Len(nodes)
    /\ Endpoint(nodes[last.idx]) = MasterEndpoint(last.first.name)
    /\ Endpoint(nodes[last.idx]) # Endpoint(last.first)
    /\ Endpoint(nodes[last.idx]) \notin serverDown

\* No value occurs twice in s.
NoRepeat(s) == \A i, j \in 1..Len(s) : s[i] = s[j] => i = j

\* C26: a call that asks the Sentinel tier ends; with N addresses in the
\* rotation when it begins, it sends at most N requests, each to another
\* address of the rotation, opens a connection to no address twice, and ends
\* with the answer of the member asked last or with the ConnectionError of
\* line 111 (the rotation is used up); a dispatch makes at most two attempts
\* and one such request.
C26_RequestTerminates ==
    [][AskedSentinel(last')
       => /\ last'.pc = "done"
          /\ Len(last'.asked) <= Len(sentinel_addresses)
          /\ NoRepeat(last'.asked)
          /\ NoRepeat(last'.conns)
          /\ Range(last'.asked) \cup Range(last'.conns)
                 \subseteq Range(sentinel_addresses)
          /\ \/ last'.res = "SentinelConnectionError"
             \/ /\ last'.asked # <<>>
                /\ sentinelUp[last'.asked[Len(last'.asked)]]
          /\ last'.tries <= 2
          /\ last'.gms <= 1]_vars

\* Every address of the rotation was asked once and none answered.
C26_Witness ==
    /\ last.kind = "dispatch"
    /\ last.res = "SentinelConnectionError"
    /\ Len(last.asked) = NumSentinels
    /\ NoRepeat(last.asked)
    /\ sentinel_addresses = <<>>

\* C27: no step adds an address to the rotation: the addresses of the
\* rotation after a step are among those before it, hence among those the
\* client was constructed with, whatever the Sentinel members do afterwards.
C27_RotationOnlyShrinks ==
    [][/\ Range(sentinel_addresses') \subseteq Range(sentinel_addresses)
       /\ Range(sentinel_addresses') \subseteq SentinelIds]_vars

\* A member that was dropped answers again, a later request was answered by
\* another member, and the dropped one is still out of the rotation.
C27_Witness ==
    /\ last.kind = "get_master"
    /\ last.res = "ok"
    /\ \E s \in SentinelIds :
          /\ sentinelUp[s]
          /\ s \notin Range(sentinel_addresses)

\* C28: a call that asks the Sentinel tier while self.sentinel is None
\* connects to the addresses of the rotation from the front, in order, and
\* sends requests to addresses it connected to only; when it ends with a
\* connection, that is the one opened last, its address is at the back of the
\* rotation and the addresses behind it follow in their order (the rotation as
\* it was, the first address moved to the back, when the first connection
\* answered); self.sentinel is one connection or None.
C28_ConnectFrontRotateBack ==
    [][(AskedSentinel(last') /\ sentinel = 0)
       => LET R == sentinel_addresses
              k == Len(last'.conns)
          IN  /\ k <= Len(R)
              /\ R # <<>> => k >= 1
              /\ last'.conns = SubSeq(R, 1, k)
              /\ Range(last'.asked) \subseteq Range(last'.conns)
              /\ sentinel' \in SentinelIds \cup {0}
              /\ sentinel' # 0
                 => /\ sentinel' = R[k]
                    /\ sentinel_addresses' = SubSeq(R, k + 1, Len(R)) \o <<R[k]>>
              /\ (sentinel' # 0 /\ k = 1)
                 => /\ Len(sentinel_addresses') = Len(R)
                    /\ sentinel_addresses' = Tail(R) \o <<Head(R)>>]_vars

\* The constructor connected to the first address, which answered and is now
\* behind the second.
C28_Witness ==
    /\ ctor = "done"
    /\ last.kind = "init"
    /\ last.conns = <<1>>
    /\ last.asked = <<1>>
    /\ sentinel = 1
    /\ sentinel_addresses = <<2, 1>>

\* C29: after every call, when self.sentinel is a connection the rotation is
\* not empty and ends with that connection's address; every address a call
\* removes from the rotation is one whose connection raised a ConnectionError
\* in that call; a call that empties the rotation ends with the
\* ConnectionError of line 111.
C29_HeldIsLastOfRotation ==
    [][/\ sentinel' # 0
          => /\ sentinel_addresses' # <<>>
             /\ sentinel_addresses'[Len(sentinel_addresses')] = sentinel'
       /\ Range(sentinel_addresses) \ Range(sentinel_addresses')
             \subseteq Range(last'.failed)
       /\ (sentinel_addresses' = <<>> /\ sentinel_addresses # <<>>)
          => last'.res = "SentinelConnectionError"]_vars

\* The held connection failed, its address was removed, and the call went on
\* with the next address, which is now the last of the rotation.
C29_Witness ==
    /\ last.kind = "get_master"
    /\ last.res = "ok"
    /\ Len(last.asked) = 2
    /\ last.failed = <<last.asked[1]>>
    /\ last.conns = <<last.asked[2]>>
    /\ sentinel = last.asked[2]
    /\ sentinel_addresses = <<sentinel>>

\* Thread t has made its call and the call has ended.
Done(f) == f.kind # "none" /\ f.pc = "done"

\* self.nodes without the objects' identities.
TableView(ns) == [i \in 1..Len(ns) |-> <<ns[i].name, ns[i].host, ns[i].port>>]

\* The call of frame f as a caller makes it on the table ns: the node is the
\* entry of ns for the same master.
SerialCall(f, ns) ==
    LET node == ns[CHOOSE i \in 1..Len(ns) : ns[i].name = f.first.name]
    IN  IF f.kind = "dispatch" THEN CallDispatch(node, f.op)
        ELSE CallGetMaster(node)

\* The client states after the call of f, made alone from a state of cs.
After(cs, f) ==
    UNION {RunSet([c EXCEPT !.l = SerialCall(f, c.nodes)]) : c \in cs}

\* The tables the calls of f1 and f2 leave when one is made after the other,
\* from the client state o.
SerialTables(o, d, f1, f2) ==
    LET start == {[nodes |-> o.nodes, sentinel |-> o.sentinel,
                   sentinel_addresses |-> o.sentinel_addresses, data |-> d,
                   l |-> NoCall]}
    IN  {TableView(c.nodes) : c \in After(After(start, f1), f2)
                                    \cup After(After(start, f2), f1)}

\* C22: two threads dispatch to nodes of different masters.  No statement of
\* either call changes an entry of self.nodes other than its own master's,
\* and when both calls have ended self.nodes is what the two calls leave when
\* made one after the other.
C22_DifferentIndicesNoContention ==
    [][\A t \in Threads, u \in Threads :
          (/\ frames'[t].kind = "dispatch"
           /\ frames'[u].kind = "dispatch"
           /\ frames'[t].first.name # frames'[u].first.name)
          => /\ frames'[t] # frames[t]
                => \A j \in 1..Len(nodes) :
                       nodes[j].name # frames'[t].first.name
                       => nodes'[j] = nodes[j]
             /\ (Done(frames'[t]) /\ Done(frames'[u]) /\ origin'.steady)
                => TableView(nodes')
                       \in SerialTables(origin', data', frames'[1], frames'[2])]_vars

\* C23: two threads dispatch to the same Node, both first attempts raise
\* ConnectionError, both call get_master with that Node, and the Sentinel
\* tier gives both the same answer.  Then both get_master calls return a Node
\* at the reported address and the master's entry of self.nodes is at that
\* address.
C23_SameIndexConverges ==
    (/\ \A t \in Threads :
            /\ Done(frames[t])
            /\ frames[t].kind = "dispatch"
            /\ frames[t].gms = 1
            /\ frames[t].outs[1] = "ConnectionError"
            /\ Answered(frames[t])
     /\ frames[1].first = frames[2].first
     /\ frames[1].reply = frames[2].reply
     /\ origin.steady)
    => \A t \in Threads :
           /\ frames[t].res # "ValueError"
           /\ frames[t].ret # NoNode
           /\ SameAddress(frames[t].ret, frames[t].reply)
           /\ \A i \in 1..Len(nodes) :
                  nodes[i].name = frames[t].first.name
                  => SameAddress(nodes[i], frames[t].reply)

\* C24: the store of line 133 is unconditional: the statement puts the
\* thread's newNode at the index it computed, whatever the entry holds by
\* then (the Node another thread stored after the index was computed
\* included).
C24_UnguardedStore ==
    [][\A t \in Threads :
          (frames[t].pc = "gm_store" /\ frames'[t] # frames[t])
          => nodes'[frames[t].idx] = frames[t].newNode]_vars

\* The lost update: both threads refreshed the same master, the Sentinel tier
\* failed it over between their requests, and the entry of self.nodes holds
\* the older answer, not the address the tier reports.
C24_Witness ==
    \E t \in Threads, u \in Threads :
        /\ Done(frames[t]) /\ Done(frames[u])
        /\ frames[t].res = "ok" /\ frames[u].res = "ok"
        /\ Answered(frames[t]) /\ Answered(frames[u])
        /\ frames[t].first.name = frames[u].first.name
        /\ frames[t].idx = frames[u].idx
        /\ frames[t].reply # frames[u].reply
        /\ SameAddress(frames[u].reply, masters[frames[u].first.name])
        /\ ~origin.steady
        /\ nodes[frames[t].idx] = frames[t].newNode
        /\ SameAddress(nodes[frames[t].idx], frames[t].reply)
        /\ ~SameAddress(nodes[frames[t].idx], masters[frames[t].first.name])

\* C25: a dispatch whose Node has been replaced in self.nodes since the
\* thread read it does not execute its command on that Node's connection:
\* the first attempt, made when the Node is in self.nodes no more, does not
\* succeed.
C25_ReplacedRecordFailsFast ==
    [][\A t \in Threads :
          (/\ frames[t].kind = "dispatch"
           /\ frames[t].pc = "w_try1"
           /\ frames'[t] # frames[t]
           /\ \A i \in 1..Len(nodes) : nodes[i].id # frames[t].node.id)
          => Outcome([l |-> frames'[t]]) # "ok"]_vars

\* C30: while the threads' Sentinel requests interleave, the address that
\* line 109 removes from the rotation is one whose connection raised a
\* ConnectionError for some thread.
C30_OnlyFailedRemoved ==
    [][\A t \in Threads :
          (frames[t].pc = "sc_pop" /\ frames'[t] # frames[t])
          => Range(sentinel_addresses) \ Range(sentinel_addresses')
                 \subseteq UNION {Range(frames'[u].failed) : u \in Threads}]_vars

\* C31: when get_master, called by the wrapper after a failed first attempt,
\* got an address other than the node's, the entry it stored stays whatever
\* the retry does: after the call the entry at the node's index is the new
\* Node, at the reported address, and a ConnectionError of the retry is the
\* call's outcome.
C31_ReplacementPersists ==
    (/\ last.kind = "dispatch"
     /\ last.tries = 2
     /\ Answered(last)
     /\ ~SameAddress(last.reply, last.first))
    => /\ last.idx \in 1..Len(nodes)
       /\ nodes[last.idx] = last.ret
       /\ nodes[last.idx].id # last.first.id
       /\ nodes[last.idx].name = last.first.name
       /\ SameAddress(nodes[last.idx], last.reply)
       /\ last.res = last.outs[2]
       /\ Endpoint(last.ret) \in serverDown => last.res = "ConnectionError"

\* The retry on the reported address raised ConnectionError and the entry
\* holds the reported address.
C31_Witness ==
    /\ last.kind = "dispatch"
    /\ last.outs = <<"ConnectionError", "ConnectionError">>
    /\ last.res = "ConnectionError"
    /\ Answered(last)
    /\ ~SameAddress(last.reply, last.first)
    /\ SameAddress(nodes[last.idx], last.reply)
    /\ Endpoint(nodes[last.idx]) \in serverDown

\* C32: when the Sentinel tier reports the node's host and a port of the same
\* number in another representation (the integer for the string, or the
\* reverse), get_master returns a new Node, distinct from the one given, with
\* the same name and the port as reported, and stores it at the node's index.
C32_PortComparedAsToken ==
    [][(/\ Refreshed(last')
        /\ last'.reply.host = last'.first.host
        /\ IntOf(last'.reply.port) = IntOf(last'.first.port)
        /\ last'.reply.port # last'.first.port)
       => /\ last'.newNode # NoNode
          /\ last'.ret.id # last'.first.id
          /\ last'.ret.name = last'.first.name
          /\ last'.ret.host = last'.first.host
          /\ last'.ret.port = last'.reply.port
          /\ last'.idx \in 1..Len(nodes')
          /\ nodes'[last'.idx] = last'.ret
          /\ nodes[last'.idx].port # nodes'[last'.idx].port
          /\ Endpoint(nodes[last'.idx]) = Endpoint(nodes'[last'.idx])]_vars

\* get_master was given a Node with the port "1" (a string), the Sentinel tier
\* reported the same host and the port 1 (an integer), and the entry is a new
\* Node.
C32_Witness ==
    /\ last.kind = "get_master"
    /\ last.res = "ok"
    /\ Refreshed(last)
    /\ last.reply.host = last.first.host
    /\ last.first.port = <<"str", 1>>
    /\ last.reply.port = <<"int", 1>>
    /\ last.ret.id # last.first.id
    /\ nodes[last.idx] = last.ret
    /\ nodes[last.idx].port = <<"int", 1>>

====
